---- MODULE Spec2Model ----
(***************************************************************************)
(* Model of the e-commerce API: keyset pagination (productController /     *)
(* categoryController), the Redis cache-aside wrapper (redisClient), the   *)
(* product write paths with their cache invalidation and audit logging,    *)
(* the read/write query router (connection) and the list routes.           *)
(*                                                                         *)
(* Every `await` of the JavaScript source is one step of a request: a step *)
(* is the completion of the awaited call (its result or its exception)     *)
(* followed by the synchronous code up to the next await.                  *)
(***************************************************************************)
EXTENDS Integers, Sequences, FiniteSets, TLC

\* ------------------------------------------------------------------ bounds

\* Largest product id the SERIAL sequence hands out in a run.
MaxId == 3
\* Number of product writes (create, update, delete) committed in a run.
MaxWrites == 2
\* Number of requests in flight at a time in the concurrent runs.
Slots == 2
\* Largest category id the SERIAL sequence hands out in a run.
MaxCategoryId == 3
\* RATE_LIMIT_WINDOW_MS and RATE_LIMIT_MAX_REQUESTS, scaled down to clock
\* ticks and to a handful of requests.
WindowMs == 2
MaxRequests == 2
\* The clock stops at MaxTime; a client key is counted at most MaxLog times.
MaxTime == 3
MaxLog == 4
\* Number of SIGTERM / SIGINT signals delivered to the process.
MaxSignals == 2

\* ------------------------------------------------------- JavaScript values

Undef == <<"undef">>
Null == <<"null">>
NaN == <<"nan">>
ReqObj == <<"obj">>
Num(n) == <<"num", n>>
Str(s) == <<"str", s>>

IsNum(v) == v[1] = "num"
IsStr(v) == v[1] = "str"

DigitChars == <<"0", "1", "2", "3", "4", "5", "6", "7", "8", "9">>
IsDigit(c) == \E i \in 1..10 : DigitChars[i] = c
DigitVal(c) == (CHOOSE i \in 1..10 : DigitChars[i] = c) - 1

\* String(n) of an integer, as a sequence of characters.
RECURSIVE NumToStr(_)
NumToStr(n) ==
  IF n < 0 THEN <<"-">> \o NumToStr(-n)
  ELSE IF n < 10 THEN <<DigitChars[n + 1]>>
  ELSE NumToStr(n \div 10) \o <<DigitChars[(n % 10) + 1]>>

\* String(v): what a template literal or parseInt makes of a value.
JsString(v) ==
  CASE IsStr(v) -> v[2]
    [] IsNum(v) -> NumToStr(v[2])
    [] v = NaN -> <<"NaN">>
    [] v = Undef -> <<"undefined">>
    [] v = Null -> <<"null">>
    [] OTHER -> <<"[object Object]">>

\* Truthiness: undefined, null, NaN, 0 and '' are falsy.
Truthy(v) ==
  CASE IsStr(v) -> v[2] # <<>>
    [] IsNum(v) -> v[2] # 0
    [] v = ReqObj -> TRUE
    [] OTHER -> FALSE

RECURSIVE SkipSpaces(_)
SkipSpaces(s) ==
  IF s # <<>> /\ Head(s) = " " THEN SkipSpaces(Tail(s)) ELSE s

\* Value of the longest prefix of digits of s, continuing from acc.
RECURSIVE DigitPrefix(_, _)
DigitPrefix(s, acc) ==
  IF s # <<>> /\ IsDigit(Head(s))
  THEN DigitPrefix(Tail(s), acc * 10 + DigitVal(Head(s)))
  ELSE acc

\* parseInt(s, 10) of a character sequence: leading blanks are skipped, one
\* sign is read, then the longest run of digits; what follows is ignored.
ParseIntChars(s) ==
  LET t == SkipSpaces(s)
      neg == t # <<>> /\ Head(t) = "-"
      u == IF t # <<>> /\ Head(t) \in {"-", "+"} THEN Tail(t) ELSE t
  IN IF u = <<>> \/ ~IsDigit(Head(u)) THEN NaN
     ELSE Num(IF neg THEN -DigitPrefix(u, 0) ELSE DigitPrefix(u, 0))

\* parseInt(v, 10): the argument is converted to a string first.
ParseInt(v) == ParseIntChars(JsString(v))

\* Math.max / Math.min of two values: NaN if either is NaN.
MathMax(a, b) ==
  IF ~IsNum(a) \/ ~IsNum(b) THEN NaN
  ELSE IF a[2] >= b[2] THEN a ELSE b

MathMin(a, b) ==
  IF ~IsNum(a) \/ ~IsNum(b) THEN NaN
  ELSE IF a[2] <= b[2] THEN a ELSE b

\* a || b
OrElse(a, b) == IF Truthy(a) THEN a ELSE b

\* limit + 1: a number stays a number, NaN stays NaN, an object is
\* concatenated with "1" into a string.
PlusOne(v) ==
  CASE IsNum(v) -> Num(v[2] + 1)
    [] v = NaN \/ v = Undef -> NaN
    [] v = Null -> Num(1)
    [] OTHER -> Str(JsString(v) \o <<"1">>)

\* ------------------------------------------------------------- data values

\* What a fetch function or getCached returns: null, a row, or a page.
RowData(row) == <<"row", row>>
PageData(page) == <<"page", page>>

\* A products row as node-postgres returns it: TIMESTAMP columns are Date
\* objects. ver stands for the mutable columns (name, description, price,
\* stock, updated_at): every UPDATE yields a new value.
Row(id, cat, ver) ==
  [id |-> id, category_id |-> cat, ver |-> ver, created_at |-> "Date"]

RECURSIVE SeqMap(_, _)
SeqMap(Op(_), s) ==
  IF s = <<>> THEN <<>> ELSE <<Op(Head(s))>> \o SeqMap(Op, Tail(s))

\* JSON.stringify turns a Date into its ISO string; JSON.parse does not
\* turn it back.
JsonRow(row) == [row EXCEPT !.created_at = "ISO"]

\* What a data value looks like once it went through JSON: the rows carry
\* strings where they carried Dates.
JsonRoundTrip(v) ==
  CASE v[1] = "row" -> RowData(JsonRow(v[2]))
    [] v[1] = "page" ->
         PageData([v[2] EXCEPT !.products = SeqMap(JsonRow, v[2].products)])
    [] OTHER -> v

\* JSON.stringify(v): the text, represented by the value it parses to.
JsonStringify(v) == <<"json", JsonRoundTrip(v)>>

\* JSON.parse(text) of a text written by JSON.stringify.
JsonParse(text) == text[2]

\* Texts no JSON.stringify wrote: one that JSON.parse rejects with a
\* SyntaxError, and the empty string.
GarbageText == <<"text", "{">>
EmptyText == <<"text", "">>

\* JSON.parse(text) returns instead of throwing.
JsonParses(text) == text[1] = "json"

\* `if (cached)`: a non-empty string.
TextTruthy(text) == text # EmptyText

\* -------------------------------------------------------------- SQL queries

\* ORDER BY id DESC over a set of rows.
RECURSIVE OrderByIdDesc(_)
OrderByIdDesc(rows) ==
  IF rows = {} THEN <<>>
  ELSE LET top == CHOOSE r \in rows : \A q \in rows : q.id <= r.id
       IN <<top>> \o OrderByIdDesc(rows \ {top})

\* LIMIT n of an ordered row sequence.
Limit(s, n) == IF Len(s) <= n THEN s ELSE SubSeq(s, 1, n)

\* The keyset condition written as id <= cursor.
SelectProductsInclusive(rows, cats, cat, cur, n) ==
  Limit(OrderByIdDesc({r \in rows :
                         /\ r.category_id \in cats
                         /\ (cat = 0 \/ r.category_id = cat)
                         /\ (cur = 0 \/ r.id <= cur)}), n)

\* The four SELECTs of getAllProductsPaginated: products joined with their
\* category, optionally filtered by category_id (cat = 0: no filter) and by
\* id < cursor (cur = 0: no cursor), ORDER BY id DESC LIMIT n.
SelectProducts(rows, cats, cat, cur, n) ==
  Limit(OrderByIdDesc({r \in rows :
                         /\ r.category_id \in cats
                         /\ (cat = 0 \/ r.category_id = cat)
                         /\ (cur = 0 \/ r.id < cur)}), n)

\* SELECT ... FROM products p JOIN categories c ... WHERE p.id = $1
SelectProductById(rows, cats, id) ==
  OrderByIdDesc({r \in rows : r.id = id /\ r.category_id \in cats})

\* rows.slice(0, -1)
SliceDropLast(s) == IF s = <<>> THEN <<>> ELSE SubSeq(s, 1, Len(s) - 1)

\* A pager that takes the first row's id for nextCursor.
MakePageFirstId(rows, limit) ==
  LET hasMore == Len(rows) > limit
      items == IF hasMore THEN SliceDropLast(rows) ELSE rows
  IN [products |-> items,
      nextCursor |-> IF hasMore THEN Num(items[1].id) ELSE Null,
      hasMore |-> hasMore]

\* hasMore / products / nextCursor of a pager from the limit+1 rows read.
MakePage(rows, limit) ==
  LET hasMore == Len(rows) > limit
      items == IF hasMore THEN SliceDropLast(rows) ELSE rows
  IN [products |-> items,
      nextCursor |-> IF hasMore THEN Num(items[Len(items)].id) ELSE Null,
      hasMore |-> hasMore]

\* -------------------------------------------------------------------- state

VARIABLES
  products,        \* primary store: the rows of table products
  categories,      \* primary store: the ids of table categories
  nextId,          \* next value of the SERIAL sequence of products.id
  audit,           \* rows of audit_logs, oldest first
  replicaOn,       \* DB_READ_REPLICA_HOST is set: readPool is a second pool
  replica,         \* the rows of table products as the replica has them
  redisClient,     \* "null" or "client" (REDIS_URL configured)
  isRedisEnabled,  \* the availability flag of redisClient.js
  redisEvent,      \* the last of the client's connect / error / close events
  redis,           \* the cache store: key -> [val, fresh]
  req,             \* the requests: slot -> request record
  client,          \* the paging client: its fixed limit and category filter
  trav,            \* the paging client's traversal so far
  lastWriteOk,     \* the last completed write invalidated with the cache up
  completed,       \* product id -> version left by its last completed update
  created,         \* the ids of the products createProduct has returned
  writes,          \* number of product writes committed so far
  nextCategoryId,  \* next value of the SERIAL sequence of categories.id
  routed,          \* the last call of query(): its arguments and its pool
  rateStore,       \* config.store of the global rate limiter
  memoryStore,     \* the MemoryStore instance: its hits and resetTime maps
  redisHits,       \* the counters the Redis store keeps under rl:
  now,             \* Date.now()
  answer,          \* what the rate limiter did with the last request
  rlLog,           \* client key -> the times of its counted requests
  listening,       \* app.listen has been called: `server` is assigned
  started,         \* startServer() has run up to its first await
  signals,         \* number of SIGTERM / SIGINT handled so far
  cronStopped,     \* dbResetTask.stop() has been called
  httpState,       \* the HTTP server: "none", "open", "closing", "closed"
  closers,         \* one entry per server.close(callback): where it stands
  redisQuits,      \* number of redisClient.quit() calls
  isShuttingDown,  \* the flag of connection.js
  poolState,       \* pool and readPool: "open", "ending" or "ended"
  poolEnds,        \* number of end() calls on each pool
  exit,            \* process.exit: whether it was called, and its code
  forceTimers,     \* number of forced-shutdown timers armed
  apiTokens        \* the rows of the table api_tokens

\* What no product request changes: the replica configuration, the category
\* sequence, the query router's record and the rate limiter.
limiterVars ==
  <<rateStore, memoryStore, redisHits, now, answer, rlLog, listening>>
procVars ==
  <<started, signals, cronStopped, httpState, closers, redisQuits,
    isShuttingDown, poolState, poolEnds, exit, forceTimers>>
sideVars ==
  <<replicaOn, nextCategoryId, routed, limiterVars, procVars, apiTokens>>
dbVars == <<products, categories, nextId, audit, sideVars, replica, writes>>
redisVars == <<redisClient, isRedisEnabled, redisEvent, redis>>
ghostVars == <<client, trav, lastWriteOk, completed, created>>
vars == <<products, categories, nextId, audit, replicaOn, replica,
          redisClient, isRedisEnabled, redisEvent,
          redis, req, client, trav, lastWriteOk, completed, created, writes,
          nextCategoryId, routed, rateStore, memoryStore, redisHits, now,
          answer, rlLog, listening, started, signals, cronStopped, httpState,
          closers, redisQuits, isShuttingDown, poolState, poolEnds, exit,
          forceTimers, apiTokens>>

\* ---------------------------------------------------------------- cache keys

\* A page key that leaves the cursor out.
KeyPaginatedNoCursor(categoryId, cursor, limit) ==
  <<"products", ":", "paginated", ":">>
    \o JsString(OrElse(categoryId, Str(<<"all">>))) \o <<":">>
    \o JsString(limit)

\* `products:paginated:${categoryId || 'all'}:${cursor || 'start'}:${limit}`
KeyPaginated(categoryId, cursor, limit) ==
  <<"products", ":", "paginated", ":">>
    \o JsString(OrElse(categoryId, Str(<<"all">>))) \o <<":">>
    \o JsString(OrElse(cursor, Str(<<"start">>))) \o <<":">>
    \o JsString(limit)

\* `product:${id}`
KeyProduct(id) == <<"product", ":">> \o NumToStr(id)

\* `category:${categoryId}`
KeyCategory(cid) == <<"category", ":">> \o NumToStr(cid)

IsPrefix(p, s) == Len(p) <= Len(s) /\ SubSeq(s, 1, Len(p)) = p

\* A pattern lookup that finds the key equal to the pattern only.
KeysMatchingExact(store, prefix) == {k \in DOMAIN store : k = prefix}

\* redisClient.keys('products:*')
KeysMatching(store, prefix) == {k \in DOMAIN store : IsPrefix(prefix, k)}

ProductsPattern == <<"products", ":">>

\* redisClient.del(...keys)
StoreDel(store, keys) == [k \in DOMAIN store \ keys |-> store[k]]

\* redisClient.setex(key, ttl, text)
StoreSet(store, key, entry) ==
  [k \in DOMAIN store \cup {key} |-> IF k = key THEN entry ELSE store[k]]

\* ------------------------------------------------------------------ requests

Idle ==
  [op |-> "idle", pc |-> "idle", route |-> "",
   categoryId |-> Undef, cursor |-> Undef, limit |-> Undef, id |-> 0,
   key |-> <<>>, inTry |-> FALSE, data |-> Null, old |-> Null,
   status |-> 0, code |-> "", keys |-> {}, stage |-> 0, txn |-> "none",
   fetches |-> 0, gcCalls |-> 0, dbCalls |-> 0, dels |-> 0,
   committed |-> FALSE, cacheErr |-> FALSE, dbErr |-> FALSE,
   bypass |-> FALSE, hit |-> FALSE, fresh |-> TRUE, invOk |-> TRUE,
   src |-> Null, srcFetches |-> 0, paging |-> FALSE, nofields |-> FALSE,
   given |-> Undef, minVer |-> 0, qCursor |-> Undef, qLimit |-> Undef,
   parseErr |-> FALSE, auditCalls |-> 0, mustExist |-> FALSE,
   auditErr |-> FALSE, authHeader |-> Undef, token |-> <<>>, tokenId |-> 0,
   tokenRows |-> {}, nextCalled |-> FALSE, acquired |-> FALSE,
   released |-> 0]

\* The request ends: the controller returned (status 200/201, or 404 for a
\* null result) or threw (its AppError's status, 500 otherwise). A call
\* that holds a pooled client leaves through `finally { client.release() }`.
Finished(rec, status, code) ==
  [rec EXCEPT !.pc = "done", !.status = status, !.code = code,
              !.released = IF rec.acquired THEN @ + 1 ELSE @]

CacheUp == isRedisEnabled /\ redisClient = "client"

\* -------------------------------------------------------------- query router

UpperChars ==
  <<"A", "B", "C", "D", "E", "F", "G", "H", "I", "J", "K", "L", "M", "N", "O", "P", "Q", "R", "S", "T", "U", "V", "W", "X", "Y", "Z">>
LowerChars ==
  <<"a", "b", "c", "d", "e", "f", "g", "h", "i", "j", "k", "l", "m", "n", "o", "p", "q", "r", "s", "t", "u", "v", "w", "x", "y", "z">>

\* The upper-case form of a character (the i flag of the pattern).
ToUpper(c) ==
  IF \E i \in 1..26 : LowerChars[i] = c
  THEN UpperChars[CHOOSE i \in 1..26 : LowerChars[i] = c]
  ELSE c

ToLower(c) ==
  IF \E i \in 1..26 : UpperChars[i] = c
  THEN LowerChars[CHOOSE i \in 1..26 : UpperChars[i] = c]
  ELSE c

UpperCase(s) == [i \in 1..Len(s) |-> ToUpper(s[i])]
LowerCase(s) == [i \in 1..Len(s) |-> ToLower(s[i])]

\* \s of a JavaScript pattern, as far as the queries use it.
WhitespaceChars == {" ", "\t", "\n", "\r", "\f"}

\* ^\s*
RECURSIVE SkipWhitespace(_)
SkipWhitespace(s) ==
  IF s # <<>> /\ Head(s) \in WhitespaceChars
  THEN SkipWhitespace(Tail(s)) ELSE s

KwInsert == <<"I", "N", "S", "E", "R", "T">>
KwUpdate == <<"U", "P", "D", "A", "T", "E">>
KwDelete == <<"D", "E", "L", "E", "T", "E">>
KwCreate == <<"C", "R", "E", "A", "T", "E">>
KwDrop == <<"D", "R", "O", "P">>
KwAlter == <<"A", "L", "T", "E", "R">>
KwTruncate == <<"T", "R", "U", "N", "C", "A", "T", "E">>

KwSelect == <<"S", "E", "L", "E", "C", "T">>

\* (INSERT|UPDATE|DELETE|CREATE|DROP|ALTER|TRUNCATE)
WriteKeywords ==
  {KwInsert, KwUpdate, KwDelete, KwCreate, KwDrop, KwAlter, KwTruncate}

\* The pattern without its i flag.
IsWriteSqlCaseSensitive(sql) ==
  \E kw \in WriteKeywords : IsPrefix(kw, SkipWhitespace(sql))

\* /^\s*(INSERT|UPDATE|DELETE|CREATE|DROP|ALTER|TRUNCATE)/i.test(sql)
IsWriteSql(sql) ==
  \E kw \in WriteKeywords : IsPrefix(kw, UpperCase(SkipWhitespace(sql)))

\* query(sql, params, options): writes and forced-primary reads go to pool,
\* every other query to readPool.
TargetPool(isWrite, forcePrimary) ==
  IF isWrite \/ forcePrimary THEN "pool" ELSE "readPool"

\* The server behind a pool: readPool is the replica's pool when
\* DB_READ_REPLICA_HOST is set and the primary pool itself otherwise.
ServerOf(targetPool) ==
  IF targetPool = "readPool" /\ replicaOn THEN "replica" ELSE "primary"

\* The products rows a query of the given kind reads: readPool is the
\* replica when one is configured and the primary pool otherwise.
RowsOf(targetPool) ==
  IF targetPool = "readPool" /\ replicaOn THEN replica ELSE products

\* ------------------------------------------------------------ fetch function

\* The integer behind a validated cursor / category id (0: none given).
CurInt(rec) == IF Truthy(rec.cursor) THEN rec.cursor[2] ELSE 0
CatInt(rec) ==
  IF Truthy(rec.categoryId) THEN ParseInt(rec.categoryId)[2] ELSE 0

\* getAllProductsPaginated's fetch function parses categoryId before it
\* queries and throws BadRequestError for NaN or a value below 1.
CategoryIdInvalid(rec) ==
  /\ rec.op = "list"
  /\ Truthy(rec.categoryId)
  /\ LET c == ParseInt(rec.categoryId) IN c = NaN \/ c[2] < 1

\* fetchFn() is invoked (inside getCached's try block or not) and runs to
\* its first await.
FetchStart(rec, inTry) ==
  IF CategoryIdInvalid(rec)
  THEN \* thrown in the try block it is caught, fetchFn() is called again
       \* and throws again, out of getCached
       Finished([rec EXCEPT !.fetches = @ + (IF inTry THEN 2 ELSE 1)],
                400, "INVALID_CATEGORY_ID")
  ELSE [rec EXCEPT !.pc = "fetch", !.inTry = inTry,
                   !.fetches = @ + 1, !.dbCalls = @ + 1]

\* PostgreSQL rejects a LIMIT parameter that is not a non-negative integer.
LimitParamOk(rec) ==
  rec.op # "list" \/ (IsNum(PlusOne(rec.limit)) /\ PlusOne(rec.limit)[2] >= 0)

\* What the fetch function returns from the rows its SELECT read.
FetchResult(rec, rows) ==
  IF rec.op = "list"
  THEN PageData(MakePage(
         SelectProducts(rows, categories, CatInt(rec), CurInt(rec),
                        rec.limit[2] + 1),
         rec.limit[2]))
  ELSE LET found == SelectProductById(rows, categories, rec.id)
       IN IF Len(found) > 0 THEN RowData(found[1]) ELSE Null

\* products[products.length - 1].id of an empty page throws a TypeError.
PageThrows(rec, rows) ==
  /\ rec.op = "list"
  /\ LET got == SelectProducts(rows, categories, CatInt(rec), CurInt(rec),
                               rec.limit[2] + 1)
     IN Len(got) > rec.limit[2] /\ SliceDropLast(got) = <<>>

\* --------------------------------------------------------- after getCached

\* The caller's code after `await getCached(...)` returned d, to its next
\* await or its return.
AfterGetCached(rec, d) ==
  CASE rec.op = "list" -> Finished([rec EXCEPT !.data = d], 200, "")
    [] rec.op = "get" ->
         Finished([rec EXCEPT !.data = d],
                  IF d = Null THEN 404 ELSE 200, "")
    [] OTHER -> \* updateProduct / deleteProduct: oldProduct = d
         IF d = Null THEN Finished([rec EXCEPT !.data = Null], 404, "")
         ELSE IF rec.op = "update" /\ rec.nofields
         THEN Finished([rec EXCEPT !.old = d], 400, "NO_UPDATE_FIELDS")
         ELSE [rec EXCEPT !.old = d, !.pc = "write_sql",
                          !.dbCalls = @ + 1]

\* A getCached that never looks at the availability flag.
GetCachedStartNoCheck(rec, up) ==
  [rec EXCEPT !.pc = "gc_get", !.gcCalls = @ + 1]

\* getCached(key, fetchFn, ttl) is entered: with the cache down the fetch
\* function is called directly, otherwise redisClient.get is awaited.
GetCachedStart(rec, up) ==
  IF ~up THEN FetchStart(rec, FALSE)
  ELSE [rec EXCEPT !.pc = "gc_get", !.gcCalls = @ + 1]

\* A controller calls getCached(key, ...); bypass records that the cache
\* was marked unavailable (or had no client) at the call.
GetCached(rec, key) ==
  GetCachedStart([rec EXCEPT !.key = key, !.bypass = ~CacheUp], CacheUp)

Set(r, rec) == req' = [req EXCEPT ![r] = rec]

\* A hit that calls the fetch function all the same.
GcGetHitRefetch(r) ==
  /\ req[r].pc = "gc_get"
  /\ req[r].key \in DOMAIN redis
  /\ Set(r, FetchStart([req[r] EXCEPT !.hit = TRUE], FALSE))
  /\ UNCHANGED <<dbVars, redisVars, ghostVars>>

\* redisClient.get resolves with the stored text: JSON.parse and return.
GcGetHit(r) ==
  /\ req[r].pc = "gc_get"
  /\ req[r].key \in DOMAIN redis
  /\ TextTruthy(redis[req[r].key].val)
  /\ JsonParses(redis[req[r].key].val)
  /\ LET e == redis[req[r].key]
     IN Set(r, AfterGetCached([req[r] EXCEPT !.hit = TRUE,
                                             !.fresh = e.fresh,
                                             !.src = e.src,
                                             !.srcFetches = e.srcFetches],
                              JsonParse(e.val)))
  /\ UNCHANGED <<dbVars, redisVars, ghostVars>>

\* redisClient.get resolves with null (or with ''): the fetch function runs
\* in the try.
GcGetMiss(r) ==
  /\ req[r].pc = "gc_get"
  /\ IF req[r].key \in DOMAIN redis
     THEN ~TextTruthy(redis[req[r].key].val) ELSE TRUE
  /\ Set(r, FetchStart(req[r], TRUE))
  /\ UNCHANGED <<dbVars, redisVars, ghostVars>>

\* redisClient.get resolves with a text JSON.parse throws on: the catch
\* block calls the fetch function and returns its result.
GcGetParseThrow(r) ==
  /\ req[r].pc = "gc_get"
  /\ req[r].key \in DOMAIN redis
  /\ TextTruthy(redis[req[r].key].val)
  /\ ~JsonParses(redis[req[r].key].val)
  /\ Set(r, FetchStart([req[r] EXCEPT !.cacheErr = TRUE, !.parseErr = TRUE],
                        FALSE))
  /\ UNCHANGED <<dbVars, redisVars, ghostVars>>

\* redisClient.get rejects: the catch block calls the fetch function.
GcGetThrow(r) ==
  /\ req[r].pc = "gc_get"
  /\ Set(r, FetchStart([req[r] EXCEPT !.cacheErr = TRUE], FALSE))
  /\ UNCHANGED <<dbVars, redisVars, ghostVars>>

\* The fetch function's query resolves.
FetchOk(r) ==
  /\ req[r].pc = "fetch"
  /\ LimitParamOk(req[r])
  /\ LET rows == RowsOf(TargetPool(IsWriteSql(KwSelect), FALSE))
     IN /\ ~PageThrows(req[r], rows)
        /\ LET d == FetchResult(req[r], rows)
               rec == [req[r] EXCEPT !.data = d,
                                     !.fresh = (rows = products)]
           IN Set(r, IF req[r].inTry /\ d # Null
                     THEN [rec EXCEPT !.pc = "gc_setex", !.gcCalls = @ + 1]
                     ELSE AfterGetCached(rec, d))
  /\ UNCHANGED <<dbVars, redisVars, ghostVars>>

\* The fetch function throws (the query rejects, or the page cannot be
\* built): inside the try block the catch calls it again, outside the error
\* leaves getCached and the controller turns it into a 500. dbErr records a
\* failure of the database itself, not the rejection of a bad parameter.
FetchThrow(r) ==
  /\ req[r].pc = "fetch"
  /\ LET rec == [req[r] EXCEPT !.dbErr = @ \/ LimitParamOk(req[r])]
     IN Set(r, IF req[r].inTry THEN FetchStart(rec, FALSE)
               ELSE Finished(rec, 500, "INTERNAL_ERROR"))
  /\ UNCHANGED <<dbVars, redisVars, ghostVars>>

\* redisClient.setex resolves: the entry is stored, data is returned.
SetexOk(r) ==
  /\ req[r].pc = "gc_setex"
  /\ redis' = StoreSet(redis, req[r].key,
                       [val |-> JsonStringify(req[r].data),
                        fresh |-> req[r].fresh,
                        src |-> req[r].data,
                        srcFetches |-> req[r].fetches])
  /\ Set(r, AfterGetCached(req[r], req[r].data))
  /\ UNCHANGED <<dbVars, redisClient, isRedisEnabled, redisEvent, ghostVars>>

\* redisClient.setex rejects: the catch block calls the fetch function again.
SetexThrow(r) ==
  /\ req[r].pc = "gc_setex"
  /\ Set(r, FetchStart([req[r] EXCEPT !.cacheErr = TRUE], FALSE))
  /\ UNCHANGED <<dbVars, redisVars, ghostVars>>

\* -------------------------------------------------------------- read requests

DefaultLimit == 20

CursorGiven(cursor) == cursor # Undef /\ cursor # Null /\ cursor # Str(<<>>)

\* The cursor check shared by the three pagers: parseInt, then NaN or a
\* value below 1 is rejected.
CursorRejected(cursor) ==
  /\ CursorGiven(cursor)
  /\ LET c == ParseInt(cursor) IN c = NaN \/ c[2] < 1

ValidatedCursor(cursor) ==
  IF CursorGiven(cursor) THEN ParseInt(cursor) ELSE cursor

\* getAllProductsPaginated(categoryId, cursor, limit = 20, req) up to its
\* first await.
ListStart(rec, categoryId, cursor, limit) ==
  LET lim == IF limit = Undef THEN Num(DefaultLimit) ELSE limit
      base == [rec EXCEPT !.op = "list", !.categoryId = categoryId,
                          !.cursor = cursor, !.given = cursor, !.limit = lim]
  IN IF CursorRejected(cursor)
     THEN Finished(base, 400, "INVALID_CURSOR")
     ELSE LET cur == ValidatedCursor(cursor)
          IN GetCached([base EXCEPT !.cursor = cur],
                       KeyPaginated(categoryId, cur, lim))

\* The id check of getProductById, updateProduct and deleteProduct.
IdRejected(id) == LET i == ParseInt(id) IN i = NaN \/ i[2] < 1

\* getProductById(id, req) up to its first await.
GetStart(rec, id) ==
  IF IdRejected(id) THEN Finished(rec, 400, "INVALID_PRODUCT_ID")
  ELSE GetCached([rec EXCEPT !.id = ParseInt(id)[2]],
                 KeyProduct(ParseInt(id)[2]))

NoTrav ==
  [cursor |-> Undef, seen |-> <<>>, pages |-> 0, clean |-> TRUE,
   finished |-> FALSE]

\* The paging client asks for its next page: the first one without a
\* cursor, then with the nextCursor of the page before.
StartPage(r) ==
  /\ req[r].pc = "idle"
  /\ ~trav.finished
  /\ Set(r, ListStart([Idle EXCEPT !.route = "fn", !.paging = TRUE],
                      client.categoryId, trav.cursor, client.limit))
  /\ UNCHANGED <<dbVars, redisVars, ghostVars>>

\* A client calls getProductById.
StartGet(r, id) ==
  /\ req[r].pc = "idle"
  /\ Set(r, GetStart([Idle EXCEPT
                         !.op = "get", !.route = "fn",
                         !.minVer = IF ParseInt(id) \in {Num(i) : i \in 1..MaxId}
                                    THEN completed[ParseInt(id)[2]] ELSE 0,
                         !.mustExist = ParseInt(id) \in {Num(i) : i \in created}],
                      id))
  /\ UNCHANGED <<dbVars, redisVars, ghostVars>>

RowIds(rows) == [i \in 1..Len(rows) |-> rows[i].id]

IsRead(rec) == rec.op \in {"list", "get"}
IsWrite(rec) == rec.op \in {"create", "update", "delete"}

\* The response leaves: the slot is free again. The paging client keeps the
\* page of a successful paging request.
Finish(r) ==
  /\ req[r].pc = "done"
  /\ Set(r, Idle)
  /\ trav' =
       IF req[r].paging /\ req[r].status = 200
       THEN LET page == req[r].data[2]
            IN [cursor |-> page.nextCursor,
                seen |-> trav.seen \o RowIds(page.products),
                pages |-> trav.pages + 1,
                clean |-> trav.clean /\ req[r].fresh,
                finished |-> ~page.hasMore]
       ELSE trav
  /\ lastWriteOk' =
       IF IsWrite(req[r]) /\ req[r].committed THEN req[r].invOk
       ELSE lastWriteOk
  /\ completed' =
       IF req[r].op = "update" /\ req[r].status = 200
       THEN [completed EXCEPT ![req[r].id] = req[r].data[2].ver]
       ELSE completed
  /\ created' =
       IF req[r].op = "create" /\ req[r].status = 201
       THEN created \cup {req[r].id} ELSE created
  /\ UNCHANGED <<dbVars, redisVars, client>>

\* The paging client starts over.
NewTraversal ==
  /\ trav.finished
  /\ \A r \in DOMAIN req : ~req[r].paging
  /\ trav' = NoTrav
  /\ UNCHANGED <<dbVars, redisVars, req, client, lastWriteOk, completed, created>>

\* ------------------------------------------------------------ cache events

\* initializeRedis(): the client object is created; the flag stays down until
\* the connect event.
InitializeRedis ==
  /\ redisClient = "null"
  /\ redisClient' = "client"
  /\ UNCHANGED <<dbVars, isRedisEnabled, redisEvent, redis, req, ghostVars>>

\* redisClient.on('connect'): the flag is raised.
RedisConnect ==
  /\ redisClient = "client"
  /\ ~isRedisEnabled
  /\ isRedisEnabled' = TRUE
  /\ redisEvent' = "connect"
  /\ UNCHANGED <<dbVars, redisClient, redis, req, ghostVars>>

\* The connection is lost: redisClient.on('close') lowers the flag. The
\* store keeps its entries.
RedisDown ==
  /\ redisClient = "client"
  /\ isRedisEnabled
  /\ isRedisEnabled' = FALSE
  /\ redisEvent' = "close"
  /\ UNCHANGED <<dbVars, redisClient, redis, req, ghostVars>>

\* redisClient.on('error'): the flag is lowered, whatever it was.
RedisError ==
  /\ redisClient = "client"
  /\ redisEvent # "error"
  /\ isRedisEnabled' = FALSE
  /\ redisEvent' = "error"
  /\ UNCHANGED <<dbVars, redisClient, redis, req, ghostVars>>

\* A connection attempt ends without 'connect': 'close' is emitted with the
\* flag down, and for the first attempt the catch of redisClient.connect()
\* runs after it. Both lower the flag.
RedisConnectFails ==
  /\ redisClient = "client"
  /\ ~isRedisEnabled
  /\ redisEvent # "close"
  /\ isRedisEnabled' = FALSE
  /\ redisEvent' = "close"
  /\ UNCHANGED <<dbVars, redisClient, redis, req, ghostVars>>

\* An entry's TTL (300 s for a page, 900 s for a product) runs out.
Expire(k) ==
  /\ k \in DOMAIN redis
  /\ redis' = StoreDel(redis, {k})
  /\ UNCHANGED <<dbVars, redisClient, isRedisEnabled, redisEvent, req, ghostVars>>

\* ------------------------------------------------------------ write requests

\* The row with the given id, as a set (empty when there is none).
RowsWithId(rows, id) == {row \in rows : row.id = id}

\* A committed product write makes every page and the written product's
\* entry a copy of data that is no longer in the table.
Outdated(store, id) ==
  [k \in DOMAIN store |->
     IF IsPrefix(ProductsPattern, k) \/ k = KeyProduct(id)
     THEN [store[k] EXCEPT !.fresh = FALSE] ELSE store[k]]

\* The same for what the other requests hold in flight.
OutdatedReqs(r, rec) ==
  [s \in DOMAIN req |->
     IF s = r THEN rec ELSE [req[s] EXCEPT !.fresh = FALSE]]

TravAfterWrite == IF trav = NoTrav THEN trav ELSE [trav EXCEPT !.clean = FALSE]

\* Invalidations that leave the category's key alone.
RECURSIVE InvFromNoCategory(_, _, _)
InvFromNoCategory(rec, stage, up) ==
  IF stage >= 3
  THEN [rec EXCEPT !.pc = "audit", !.stage = 4, !.dbCalls = @ + 1,
                   !.auditCalls = @ + 1]
  ELSE IF ~up THEN InvFromNoCategory([rec EXCEPT !.invOk = FALSE], stage + 1, up)
  ELSE IF stage = 2
  THEN [rec EXCEPT !.pc = "inv_keys", !.stage = 2]
  ELSE [rec EXCEPT !.pc = "inv_del", !.stage = stage, !.dels = @ + 1,
                   !.keys = {KeyProduct(rec.id)}]

\* The cache invalidations after a write, then the audit insert. Stage 1:
\* invalidateCache(`product:${id}`), stage 2: invalidateCachePattern(
\* 'products:*'), stage 3: invalidateCache(`category:${category_id}`),
\* stage 4: logAudit. Each invalidation returns at once when the cache is
\* down and otherwise awaits its first redis command.
RECURSIVE InvFrom(_, _, _)
InvFrom(rec, stage, up) ==
  IF stage = 4
  THEN [rec EXCEPT !.pc = "audit", !.stage = 4, !.dbCalls = @ + 1,
                   !.auditCalls = @ + 1]
  ELSE IF ~up THEN InvFrom([rec EXCEPT !.invOk = FALSE], stage + 1, up)
  ELSE IF stage = 2
  THEN [rec EXCEPT !.pc = "inv_keys", !.stage = 2]
  ELSE [rec EXCEPT !.pc = "inv_del", !.stage = stage, !.dels = @ + 1,
                   !.keys = {IF stage = 1 THEN KeyProduct(rec.id)
                             ELSE KeyCategory(rec.data[2].category_id)}]

\* updateProduct(id, ...) / deleteProduct(id) up to the first await: the id
\* check, then getProductById(id) for the audit's old values.
WriteStart(rec, id) ==
  IF IdRejected(id) THEN Finished(rec, 400, "INVALID_PRODUCT_ID")
  ELSE GetCached([rec EXCEPT !.id = ParseInt(id)[2]],
                 KeyProduct(ParseInt(id)[2]))

StartUpdate(r, id, nofields) ==
  /\ req[r].pc = "idle"
  /\ writes < MaxWrites
  /\ Set(r, WriteStart([Idle EXCEPT !.op = "update", !.route = "fn",
                                    !.nofields = nofields], id))
  /\ UNCHANGED <<dbVars, redisVars, ghostVars>>

StartDelete(r, id) ==
  /\ req[r].pc = "idle"
  /\ writes < MaxWrites
  /\ Set(r, WriteStart([Idle EXCEPT !.op = "delete", !.route = "fn"], id))
  /\ UNCHANGED <<dbVars, redisVars, ghostVars>>

\* The UPDATE ... RETURNING * / DELETE ... RETURNING * resolves: it ran on
\* the primary pool and is committed.
WriteSqlOk(r) ==
  /\ req[r].pc = "write_sql"
  /\ TargetPool(IsWriteSql(IF req[r].op = "update" THEN KwUpdate
                           ELSE KwDelete), FALSE) = "pool"
  /\ LET hit == RowsWithId(products, req[r].id)
     IN IF hit = {}
        THEN /\ Set(r, Finished([req[r] EXCEPT !.data = Null], 404, ""))
             /\ UNCHANGED <<products, redis, trav, writes>>
        ELSE LET row == CHOOSE row \in hit : TRUE
                 new == [row EXCEPT !.ver = @ + 1]
                 rec == [req[r] EXCEPT
                           !.committed = TRUE,
                           !.data = RowData(IF req[r].op = "update"
                                            THEN new ELSE row)]
             IN /\ products' = IF req[r].op = "update"
                               THEN (products \ {row}) \cup {new}
                               ELSE products \ {row}
                /\ redis' = Outdated(redis, req[r].id)
                /\ req' = OutdatedReqs(r, InvFrom(rec, 1, CacheUp))
                /\ trav' = TravAfterWrite
                /\ writes' = writes + 1
  /\ UNCHANGED <<categories, nextId, audit, sideVars, replica, redisClient,
                 isRedisEnabled, redisEvent, client, lastWriteOk, completed, created>>

\* A catch block that invalidates and audits before it rethrows.
WriteSqlThrowThenInvalidate(r) ==
  /\ req[r].pc = "write_sql"
  /\ Set(r, InvFrom([req[r] EXCEPT !.dbErr = TRUE], 1, CacheUp))
  /\ UNCHANGED <<dbVars, redisVars, ghostVars>>

\* The statement rejects: handleDatabaseError, a 500.
WriteSqlThrow(r) ==
  /\ req[r].pc = "write_sql"
  /\ Set(r, Finished([req[r] EXCEPT !.dbErr = TRUE], 500, "INTERNAL_ERROR"))
  /\ UNCHANGED <<dbVars, redisVars, ghostVars>>

\* redisClient.keys('products:*') resolves: del(...keys) if there are any.
InvKeysOk(r) ==
  /\ req[r].pc = "inv_keys"
  /\ LET keys == KeysMatching(redis, ProductsPattern)
     IN Set(r, IF keys # {}
               THEN [req[r] EXCEPT !.pc = "inv_del", !.keys = keys,
                                   !.dels = @ + 1]
               ELSE InvFrom(req[r], 3, CacheUp))
  /\ UNCHANGED <<dbVars, redisVars, ghostVars>>

\* redisClient.del(...keys) resolves.
InvDelOk(r) ==
  /\ req[r].pc = "inv_del"
  /\ redis' = StoreDel(redis, req[r].keys)
  /\ Set(r, InvFrom([req[r] EXCEPT !.keys = {}], req[r].stage + 1, CacheUp))
  /\ UNCHANGED <<dbVars, redisClient, isRedisEnabled, redisEvent, ghostVars>>

\* An invalidation whose error fails the request.
InvThrowPropagates(r) ==
  /\ req[r].pc \in {"inv_keys", "inv_del"}
  /\ Set(r, Finished([req[r] EXCEPT !.cacheErr = TRUE, !.invOk = FALSE],
                     500, "INTERNAL_ERROR"))
  /\ UNCHANGED <<dbVars, redisVars, ghostVars>>

\* keys or del rejects: the error is logged and swallowed.
InvThrow(r) ==
  /\ req[r].pc \in {"inv_keys", "inv_del"}
  /\ Set(r, InvFrom([req[r] EXCEPT !.keys = {}, !.cacheErr = TRUE,
                                   !.invOk = FALSE],
                    req[r].stage + 1, CacheUp))
  /\ UNCHANGED <<dbVars, redisVars, ghostVars>>

AuditAction(rec) ==
  CASE rec.op = "create" -> "CREATE"
    [] rec.op = "update" -> "UPDATE"
    [] OTHER -> "DELETE"

SuccessStatus(rec) == IF rec.op = "create" THEN 201 ELSE 200

\* logAudit's INSERT INTO audit_logs resolves.
AuditOk(r) ==
  /\ req[r].pc = "audit"
  /\ audit' = Append(audit, <<AuditAction(req[r]), "product", req[r].id>>)
  /\ Set(r, Finished(req[r], SuccessStatus(req[r]), ""))
  /\ UNCHANGED <<products, categories, nextId, sideVars, replica, writes,
                 redisVars, ghostVars>>

\* logAudit's INSERT rejects: logged, the request does not fail.
AuditThrow(r) ==
  /\ req[r].pc = "audit"
  /\ Set(r, Finished([req[r] EXCEPT !.auditErr = TRUE],
                     SuccessStatus(req[r]), ""))
  /\ UNCHANGED <<dbVars, redisVars, ghostVars>>

\* createProduct(name, description, price, categoryId, stock, req): the
\* client is taken from the pool first.
StartCreate(r, categoryId) ==
  /\ req[r].pc = "idle"
  /\ writes < MaxWrites
  /\ nextId <= MaxId
  /\ Set(r, [Idle EXCEPT !.op = "create", !.route = "fn", !.pc = "connect",
                         !.categoryId = categoryId, !.dbCalls = 1])
  /\ UNCHANGED <<dbVars, redisVars, ghostVars>>

\* The catch block: `await client.query('ROLLBACK')`, then the error is
\* rethrown (an AppError as it is, anything else as a 500).
ToRollback(rec, status, code) ==
  [rec EXCEPT !.pc = "rollback", !.status = status, !.code = code,
              !.dbCalls = @ + 1]

\* pool.connect() resolves: the category id is parsed, BEGIN is sent.
ConnectOk(r) ==
  /\ req[r].pc = "connect"
  /\ LET c == ParseInt(req[r].categoryId)
     IN Set(r, IF c = NaN \/ c[2] < 1
               THEN ToRollback([req[r] EXCEPT !.acquired = TRUE],
                               400, "INVALID_CATEGORY_ID")
               ELSE [req[r] EXCEPT !.pc = "begin", !.categoryId = c,
                                   !.acquired = TRUE, !.dbCalls = @ + 1])
  /\ UNCHANGED <<dbVars, redisVars, ghostVars>>

\* pool.connect() rejects before the try block: the error leaves
\* createProduct as it is.
ConnectThrow(r) ==
  /\ req[r].pc = "connect"
  /\ Set(r, Finished([req[r] EXCEPT !.dbErr = TRUE], 500, "INTERNAL_ERROR"))
  /\ UNCHANGED <<dbVars, redisVars, ghostVars>>

\* BEGIN resolves: the category is looked up in the transaction.
BeginOk(r) ==
  /\ req[r].pc = "begin"
  /\ Set(r, [req[r] EXCEPT !.pc = "cat_check", !.txn = "open",
                           !.dbCalls = @ + 1])
  /\ UNCHANGED <<dbVars, redisVars, ghostVars>>

\* A createProduct that inserts whatever the category lookup returns.
CatCheckOkNoCheck(r) ==
  /\ req[r].pc = "cat_check"
  /\ Set(r, [req[r] EXCEPT !.pc = "insert", !.dbCalls = @ + 1])
  /\ UNCHANGED <<dbVars, redisVars, ghostVars>>

\* SELECT id FROM categories resolves: without the category the transaction
\* is rolled back and BadRequestError thrown, with it the row is inserted.
CatCheckOk(r) ==
  /\ req[r].pc = "cat_check"
  /\ Set(r, [req[r] EXCEPT
               !.pc = IF req[r].categoryId[2] \in categories
                      THEN "insert" ELSE "rollback_inner",
               !.dbCalls = @ + 1])
  /\ UNCHANGED <<dbVars, redisVars, ghostVars>>

\* The ROLLBACK before `throw new BadRequestError(...)` resolves; the catch
\* block then sends ROLLBACK once more.
RollbackInnerOk(r) ==
  /\ req[r].pc = "rollback_inner"
  /\ Set(r, ToRollback([req[r] EXCEPT !.txn = "rolledback"],
                       400, "INVALID_CATEGORY"))
  /\ UNCHANGED <<dbVars, redisVars, ghostVars>>

\* A createProduct that invalidates right after the INSERT, before COMMIT.
InsertOkThenInvalidate(r) ==
  /\ req[r].pc = "insert"
  /\ nextId' = nextId + 1
  /\ Set(r, InvFrom([req[r] EXCEPT
                       !.id = nextId,
                       !.data = RowData(Row(nextId, req[r].categoryId[2], 0)),
                       !.dbCalls = @ + 1],
                    2, CacheUp))
  /\ UNCHANGED <<products, categories, audit, sideVars, replica, writes,
                 redisVars, ghostVars>>

\* INSERT INTO products ... RETURNING * resolves: the sequence has moved,
\* the row is visible to the transaction only.
InsertOk(r) ==
  /\ req[r].pc = "insert"
  /\ nextId' = nextId + 1
  /\ Set(r, [req[r] EXCEPT !.pc = "commit", !.id = nextId,
                           !.data = RowData(Row(nextId,
                                                req[r].categoryId[2], 0)),
                           !.dbCalls = @ + 1])
  /\ UNCHANGED <<products, categories, audit, sideVars, replica, writes,
                 redisVars, ghostVars>>

\* COMMIT resolves: the row is in the table; the caches are invalidated.
CommitOk(r) ==
  /\ req[r].pc = "commit"
  /\ products' = products \cup {req[r].data[2]}
  /\ redis' = Outdated(redis, req[r].id)
  /\ req' = OutdatedReqs(r, InvFrom([req[r] EXCEPT !.txn = "committed",
                                                   !.committed = TRUE],
                                    2, CacheUp))
  /\ trav' = TravAfterWrite
  /\ writes' = writes + 1
  /\ UNCHANGED <<categories, nextId, audit, sideVars, replica, redisClient,
                 isRedisEnabled, redisEvent, client, lastWriteOk, completed, created>>

\* A statement of the transaction rejects: the catch block.
TxThrow(r) ==
  /\ req[r].pc \in {"begin", "cat_check", "rollback_inner", "insert",
                    "commit"}
  /\ Set(r, ToRollback([req[r] EXCEPT !.dbErr = TRUE], 500,
                       "INTERNAL_ERROR"))
  /\ UNCHANGED <<dbVars, redisVars, ghostVars>>

\* The catch block's ROLLBACK resolves: the error is rethrown.
RollbackOk(r) ==
  /\ req[r].pc = "rollback"
  /\ Set(r, Finished([req[r] EXCEPT
                        !.txn = IF @ = "open" THEN "rolledback" ELSE @],
                     req[r].status, req[r].code))
  /\ UNCHANGED <<dbVars, redisVars, ghostVars>>

\* The catch block's ROLLBACK rejects: that error leaves createProduct.
RollbackThrow(r) ==
  /\ req[r].pc = "rollback"
  /\ Set(r, Finished([req[r] EXCEPT !.dbErr = TRUE], 500, "INTERNAL_ERROR"))
  /\ UNCHANGED <<dbVars, redisVars, ghostVars>>

\* ------------------------------------------------------------ specification

\* No query routed yet.
NoQuery == [sql |-> <<>>, forcePrimary |-> FALSE, pool |-> "none"]

\* No request has passed the rate limiter yet.
NoAnswer ==
  [key |-> "", path |-> "", counted |-> FALSE, totalHits |-> 0, status |-> 0,
   store |-> "none", redisUp |-> FALSE]

\* A new MemoryStore(): two empty maps.
EmptyMemoryStore == [hits |-> <<>>, resetTime |-> <<>>]

ClientKeys == {"ip1", "ip2"}

NotExited == [done |-> FALSE, code |-> 0]

AllPools(state) == [pool |-> state, readPool |-> state]

\* The process with no signal handled and nothing closed.
ProcInit ==
  /\ signals = 0
  /\ cronStopped = FALSE
  /\ closers = <<>>
  /\ redisQuits = 0
  /\ isShuttingDown = FALSE
  /\ poolState = AllPools("open")
  /\ poolEnds = AllPools(0)
  /\ exit = NotExited
  /\ forceTimers = 0
  /\ redisEvent = IF isRedisEnabled THEN "connect" ELSE "none"

\* The state the product requests leave alone, as it is once the server
\* runs: the categories sequence past the seeded rows, the global rate
\* limiter on its in-memory store.
SideInit ==
  /\ created = {}
  /\ nextCategoryId = 3
  /\ routed = NoQuery
  /\ rateStore = "memory"
  /\ memoryStore = EmptyMemoryStore
  /\ redisHits = [k \in ClientKeys |-> 0]
  /\ now = 0
  /\ answer = NoAnswer
  /\ rlLog = [k \in ClientKeys |-> <<>>]
  /\ listening = TRUE
  /\ started = TRUE
  /\ apiTokens = {}
  /\ httpState = "open"
  /\ ProcInit

\* The seeded tables.
SeedCategories == {1, 2}
SeedProducts == {Row(1, 1, 0)}

\* The inputs the clients send.
GetIds == {Num(1), Num(2)}
CreateCategoryIds == {Num(1), Num(9), Str(<<"x">>)}
ListCursors == {Undef}
ListLimits == {Num(1)}

\* A client calls getAllProductsPaginated.
StartList(r, categoryId, cursor, limit) ==
  /\ req[r].pc = "idle"
  /\ Set(r, ListStart([Idle EXCEPT !.route = "fn"], categoryId, cursor, limit))
  /\ UNCHANGED <<dbVars, redisVars, ghostVars>>

Init ==
  /\ products = SeedProducts
  /\ categories = SeedCategories
  /\ nextId = 2
  /\ audit = <<>>
  /\ replicaOn = FALSE
  /\ replica = SeedProducts
  /\ writes = 0
  /\ redisClient = "null"
  /\ isRedisEnabled = FALSE
  /\ redis = <<>>
  /\ req = [s \in {1} |-> Idle]
  /\ client = [limit |-> Num(1), categoryId |-> Undef]
  /\ trav = NoTrav
  /\ lastWriteOk = TRUE
  /\ completed = [i \in 1..MaxId |-> 0]
  /\ SideInit

\* One request at a time: a request is sent when no other is in flight.
Next ==
  \/ \E r \in DOMAIN req, cur \in ListCursors, lim \in ListLimits :
       StartList(r, Undef, cur, lim)
  \/ \E r \in DOMAIN req, id \in GetIds : StartGet(r, id)
  \/ \E r \in DOMAIN req, id \in GetIds, nofields \in BOOLEAN :
       StartUpdate(r, id, nofields)
  \/ \E r \in DOMAIN req, id \in GetIds : StartDelete(r, id)
  \/ \E r \in DOMAIN req, c \in CreateCategoryIds : StartCreate(r, c)
  \/ \E r \in DOMAIN req : GcGetHit(r)
  \/ \E r \in DOMAIN req : GcGetMiss(r)
  \/ \E r \in DOMAIN req : GcGetThrow(r)
  \/ \E r \in DOMAIN req : FetchOk(r)
  \/ \E r \in DOMAIN req : FetchThrow(r)
  \/ \E r \in DOMAIN req : SetexOk(r)
  \/ \E r \in DOMAIN req : SetexThrow(r)
  \/ \E r \in DOMAIN req : WriteSqlOk(r)
  \/ \E r \in DOMAIN req : WriteSqlThrow(r)
  \/ \E r \in DOMAIN req : InvKeysOk(r)
  \/ \E r \in DOMAIN req : InvDelOk(r)
  \/ \E r \in DOMAIN req : InvThrow(r)
  \/ \E r \in DOMAIN req : AuditOk(r)
  \/ \E r \in DOMAIN req : AuditThrow(r)
  \/ \E r \in DOMAIN req : ConnectOk(r)
  \/ \E r \in DOMAIN req : ConnectThrow(r)
  \/ \E r \in DOMAIN req : BeginOk(r)
  \/ \E r \in DOMAIN req : CatCheckOk(r)
  \/ \E r \in DOMAIN req : RollbackInnerOk(r)
  \/ \E r \in DOMAIN req : InsertOk(r)
  \/ \E r \in DOMAIN req : CommitOk(r)
  \/ \E r \in DOMAIN req : TxThrow(r)
  \/ \E r \in DOMAIN req : RollbackOk(r)
  \/ \E r \in DOMAIN req : RollbackThrow(r)
  \/ \E r \in DOMAIN req : Finish(r)
  \/ InitializeRedis
  \/ RedisConnect
  \/ RedisDown
  \/ \E k \in DOMAIN redis : Expire(k)

Spec == Init /\ [][Next]_vars

\* ------------------------------------------- the cache comes and goes

FlagInit ==
  /\ products = SeedProducts
  /\ categories = SeedCategories
  /\ nextId = 2
  /\ audit = <<>>
  /\ replicaOn = FALSE
  /\ replica = SeedProducts
  /\ writes = 0
  /\ redisClient = "null"
  /\ isRedisEnabled = FALSE
  /\ redis = <<>>
  /\ req = [s \in {1} |-> Idle]
  /\ client = [limit |-> Num(1), categoryId |-> Undef]
  /\ trav = NoTrav
  /\ lastWriteOk = TRUE
  /\ completed = [i \in 1..MaxId |-> 0]
  /\ SideInit

\* Reads and writes of product 1 while the connection to Redis is made,
\* fails and is lost at any moment.
FlagNext ==
  \/ \E r \in DOMAIN req : StartList(r, Undef, Undef, Num(1))
  \/ \E r \in DOMAIN req : StartGet(r, Num(1))
  \/ \E r \in DOMAIN req : StartUpdate(r, Num(1), FALSE)
  \/ \E r \in DOMAIN req : StartDelete(r, Num(1))
  \/ \E r \in DOMAIN req : GcGetHit(r)
  \/ \E r \in DOMAIN req : GcGetMiss(r)
  \/ \E r \in DOMAIN req : GcGetThrow(r)
  \/ \E r \in DOMAIN req : FetchOk(r)
  \/ \E r \in DOMAIN req : SetexOk(r)
  \/ \E r \in DOMAIN req : SetexThrow(r)
  \/ \E r \in DOMAIN req : WriteSqlOk(r)
  \/ \E r \in DOMAIN req : InvKeysOk(r)
  \/ \E r \in DOMAIN req : InvDelOk(r)
  \/ \E r \in DOMAIN req : InvThrow(r)
  \/ \E r \in DOMAIN req : AuditOk(r)
  \/ \E r \in DOMAIN req : Finish(r)
  \/ InitializeRedis
  \/ RedisConnect
  \/ RedisDown
  \/ RedisError
  \/ RedisConnectFails

FlagSpec == FlagInit /\ [][FlagNext]_vars

\* ------------------------------------------------------- keys of two calls

\* What callers pass as categoryId: nothing, an id in decimal, the same id
\* with a leading blank or with trailing letters, another id, and the word
\* the key uses for "no filter".
KeyCategoryIds ==
  {Undef, Str(<<"1">>), Str(<<" ", "1">>), Str(<<"1", "a">>), Str(<<"2">>),
   Str(<<"a", "l", "l">>)}

KeyCursors == {Undef, Str(<<"2">>), Num(2), Str(<<"0">>)}

KeyLimits == {Num(1), Num(2)}

KeyInit ==
  /\ products = SeedProducts
  /\ categories = SeedCategories
  /\ nextId = 2
  /\ audit = <<>>
  /\ replicaOn = FALSE
  /\ replica = SeedProducts
  /\ writes = 0
  /\ redisClient = "client"
  /\ isRedisEnabled = TRUE
  /\ redis = <<>>
  /\ req = [s \in 1..Slots |-> Idle]
  /\ client = [limit |-> Num(1), categoryId |-> Undef]
  /\ trav = NoTrav
  /\ lastWriteOk = TRUE
  /\ completed = [i \in 1..MaxId |-> 0]
  /\ SideInit

\* Calls of getAllProductsPaginated run up to the get they send to the
\* cache; a call whose cursor is rejected ends.
KeyNext ==
  \/ \E r \in DOMAIN req, categoryId \in KeyCategoryIds, cur \in KeyCursors,
         lim \in KeyLimits : StartList(r, categoryId, cur, lim)
  \/ \E r \in DOMAIN req : Finish(r)

KeySpec == KeyInit /\ [][KeyNext]_vars

\* ------------------------------------------------- a shared cache store

\* Another client of the Redis server (another service or version of the
\* API) writes a key while no request is in flight.
ExternalSet(k, text) ==
  /\ \A r \in DOMAIN req : req[r].pc = "idle"
  /\ redis' = StoreSet(redis, k, [val |-> text, fresh |-> FALSE,
                                   src |-> Null, srcFetches |-> 0])
  /\ UNCHANGED <<dbVars, redisClient, isRedisEnabled, redisEvent, req, ghostVars>>

ExternalKeys ==
  {KeyProduct(1), KeyCategory(1), KeyPaginated(Undef, Undef, Num(1))}

ExternalTexts == {GarbageText, EmptyText}

StoreInit ==
  /\ products = SeedProducts
  /\ categories = SeedCategories
  /\ nextId = 2
  /\ audit = <<>>
  /\ replicaOn = FALSE
  /\ replica = SeedProducts
  /\ writes = 0
  /\ redisClient = "client"
  /\ isRedisEnabled = TRUE
  /\ redis = <<>>
  /\ req = [s \in {1} |-> Idle]
  /\ client = [limit |-> Num(1), categoryId |-> Undef]
  /\ trav = NoTrav
  /\ lastWriteOk = TRUE
  /\ completed = [i \in 1..MaxId |-> 0]
  /\ SideInit

\* One request at a time on a cache store that other clients write to; the
\* database does not fail.
StoreNext ==
  \/ \E r \in DOMAIN req : StartList(r, Undef, Undef, Num(1))
  \/ \E r \in DOMAIN req, id \in GetIds : StartGet(r, id)
  \/ \E r \in DOMAIN req : StartUpdate(r, Num(1), FALSE)
  \/ \E r \in DOMAIN req : StartDelete(r, Num(1))
  \/ \E r \in DOMAIN req : StartCreate(r, Num(1))
  \/ \E r \in DOMAIN req : GcGetHit(r)
  \/ \E r \in DOMAIN req : GcGetMiss(r)
  \/ \E r \in DOMAIN req : GcGetParseThrow(r)
  \/ \E r \in DOMAIN req : FetchOk(r)
  \/ \E r \in DOMAIN req : SetexOk(r)
  \/ \E r \in DOMAIN req : WriteSqlOk(r)
  \/ \E r \in DOMAIN req : InvKeysOk(r)
  \/ \E r \in DOMAIN req : InvDelOk(r)
  \/ \E r \in DOMAIN req : InvThrow(r)
  \/ \E r \in DOMAIN req : AuditOk(r)
  \/ \E r \in DOMAIN req : ConnectOk(r)
  \/ \E r \in DOMAIN req : BeginOk(r)
  \/ \E r \in DOMAIN req : CatCheckOk(r)
  \/ \E r \in DOMAIN req : InsertOk(r)
  \/ \E r \in DOMAIN req : CommitOk(r)
  \/ \E r \in DOMAIN req : Finish(r)
  \/ RedisConnect
  \/ RedisDown
  \/ \E k \in ExternalKeys, text \in ExternalTexts : ExternalSet(k, text)

StoreSpec == StoreInit /\ [][StoreNext]_vars

\* --------------------------------------------------- the pager on fixed data

\* The tables a run of creates and deletes can leave: any set of products
\* with ids up to MaxId, the odd ids in category 1 and the even in 2.
ProductSets ==
  {{Row(i, IF i % 2 = 1 THEN 1 ELSE 2, 0) : i \in I} : I \in SUBSET (1..MaxId)}

PagerLimits == {Num(1), Num(2), Num(100)}
PagerCategoryIds == {Undef, Str(<<"1">>)}

PagerInit ==
  /\ products \in ProductSets
  /\ categories = SeedCategories
  /\ nextId = MaxId + 1
  /\ audit = <<>>
  /\ replicaOn = FALSE
  /\ replica = products
  /\ writes = 0
  /\ redisClient = "client"
  /\ isRedisEnabled = TRUE
  /\ redis = <<>>
  /\ req = [s \in {1} |-> Idle]
  /\ client \in [limit : PagerLimits, categoryId : PagerCategoryIds]
  /\ trav = NoTrav
  /\ lastWriteOk = TRUE
  /\ completed = [i \in 1..MaxId |-> 0]
  /\ SideInit

PagerCursors == {Num(i) : i \in 1..MaxId}

\* The paging client walks the table page by page, other clients ask for
\* single pages; nothing writes.
PagerNext ==
  \/ \E r \in DOMAIN req : StartPage(r)
  \/ \E r \in DOMAIN req, cur \in PagerCursors :
       StartList(r, client.categoryId, cur, client.limit)
  \/ \E r \in DOMAIN req : GcGetHit(r)
  \/ \E r \in DOMAIN req : GcGetMiss(r)
  \/ \E r \in DOMAIN req : GcGetThrow(r)
  \/ \E r \in DOMAIN req : FetchOk(r)
  \/ \E r \in DOMAIN req : FetchThrow(r)
  \/ \E r \in DOMAIN req : SetexOk(r)
  \/ \E r \in DOMAIN req : SetexThrow(r)
  \/ \E r \in DOMAIN req : Finish(r)
  \/ NewTraversal
  \/ RedisConnect
  \/ RedisDown
  \/ \E k \in DOMAIN redis : Expire(k)

PagerSpec == PagerInit /\ [][PagerNext]_vars

\* -------------------------------------------- paging while products arrive

\* The paging client asks for its next page once it has the one before.
StartNextPage(r) ==
  /\ \A s \in DOMAIN req : ~req[s].paging
  /\ StartPage(r)

\* createProduct is called after the paging client got its first page.
StartCreateAfterPage(r, categoryId) ==
  /\ trav.pages >= 1
  /\ StartCreate(r, categoryId)

StableProducts == {Row(1, 1, 0), Row(2, 2, 0)}

\* The cursors the other clients send: the ids the seeded pages end with.
StableCursors == {Num(p.id) : p \in StableProducts}

StableInit ==
  /\ products = StableProducts
  /\ categories = SeedCategories
  /\ nextId = 3
  /\ audit = <<>>
  /\ replicaOn = FALSE
  /\ replica = products
  /\ writes = 0
  /\ redisClient = "client"
  /\ isRedisEnabled = TRUE
  /\ redis = <<>>
  /\ req = [s \in 1..Slots |-> Idle]
  /\ client = [limit |-> Num(1), categoryId |-> Undef]
  /\ trav = NoTrav
  /\ lastWriteOk = TRUE
  /\ completed = [i \in 1..MaxId |-> 0]
  /\ SideInit

\* One client pages through the products, others ask for single pages, and
\* products are created while it does; invalidations may fail.
StableNext ==
  \/ \E r \in DOMAIN req : StartNextPage(r)
  \/ \E r \in DOMAIN req, cur \in StableCursors :
       StartList(r, client.categoryId, cur, client.limit)
  \/ \E r \in DOMAIN req : StartCreateAfterPage(r, Num(1))
  \/ \E r \in DOMAIN req : GcGetHit(r)
  \/ \E r \in DOMAIN req : GcGetMiss(r)
  \/ \E r \in DOMAIN req : FetchOk(r)
  \/ \E r \in DOMAIN req : SetexOk(r)
  \/ \E r \in DOMAIN req : ConnectOk(r)
  \/ \E r \in DOMAIN req : BeginOk(r)
  \/ \E r \in DOMAIN req : CatCheckOk(r)
  \/ \E r \in DOMAIN req : InsertOk(r)
  \/ \E r \in DOMAIN req : CommitOk(r)
  \/ \E r \in DOMAIN req : InvKeysOk(r)
  \/ \E r \in DOMAIN req : InvDelOk(r)
  \/ \E r \in DOMAIN req : InvThrow(r)
  \/ \E r \in DOMAIN req : AuditOk(r)
  \/ \E r \in DOMAIN req : Finish(r)

StableSpec == StableInit /\ [][StableNext]_vars

\* ---------------------------------------------- paging while products go

\* deleteProduct is called between two page fetches of the paging client.
StartDeleteBetweenPages(r, id) ==
  /\ trav.pages >= 1
  /\ \A s \in DOMAIN req : ~req[s].paging
  /\ StartDelete(r, id)

\* The paging client asks for its next page once the deletions are over.
StartPageAfterWrites(r) ==
  /\ \A s \in DOMAIN req : ~IsWrite(req[s])
  /\ StartNextPage(r)

\* The cursor the other clients send: the one page 1 ends with.
GapCursors == {Num(2)}

GapInit ==
  /\ products = StableProducts
  /\ categories = SeedCategories
  /\ nextId = 3
  /\ audit = <<>>
  /\ replicaOn = FALSE
  /\ replica = products
  /\ writes = 0
  /\ redisClient = "client"
  /\ isRedisEnabled = TRUE
  /\ redis = <<>>
  /\ req = [s \in 1..Slots |-> Idle]
  /\ client = [limit |-> Num(1), categoryId |-> Undef]
  /\ trav = NoTrav
  /\ lastWriteOk = TRUE
  /\ completed = [i \in 1..MaxId |-> 0]
  /\ SideInit

\* One client pages through the products, others ask for single pages, and
\* products are deleted between its page fetches; invalidations may fail.
GapNext ==
  \/ \E r \in DOMAIN req : StartPageAfterWrites(r)
  \/ \E r \in DOMAIN req, cur \in GapCursors :
       StartList(r, client.categoryId, cur, client.limit)
  \/ \E r \in DOMAIN req, id \in StableCursors : StartDeleteBetweenPages(r, id)
  \/ \E r \in DOMAIN req : GcGetHit(r)
  \/ \E r \in DOMAIN req : GcGetMiss(r)
  \/ \E r \in DOMAIN req : FetchOk(r)
  \/ \E r \in DOMAIN req : SetexOk(r)
  \/ \E r \in DOMAIN req : WriteSqlOk(r)
  \/ \E r \in DOMAIN req : InvKeysOk(r)
  \/ \E r \in DOMAIN req : InvDelOk(r)
  \/ \E r \in DOMAIN req : InvThrow(r)
  \/ \E r \in DOMAIN req : AuditOk(r)
  \/ \E r \in DOMAIN req : Finish(r)

GapSpec == GapInit /\ [][GapNext]_vars

\* ------------------------------------------------------- category pagers

DefaultCategoryLimit == 10

\* SELECT * FROM categories [WHERE id < $1] ORDER BY id DESC LIMIT n
SelectCategories(cats, cur, n) ==
  Limit(OrderByIdDesc({[id |-> c] : c \in {d \in cats : cur = 0 \/ d < cur}}),
        n)

\* SELECT * FROM products WHERE category_id = $1 [AND id < $2]
\* ORDER BY id DESC LIMIT n
SelectProductsOfCategory(rows, cat, cur, n) ==
  Limit(OrderByIdDesc({p \in rows : /\ p.category_id = cat
                                     /\ (cur = 0 \/ p.id < cur)}), n)

\* The cursor check and what follows it in both category pagers.
CatCursorCheck(base, cursor) ==
  IF CursorRejected(cursor) THEN Finished(base, 400, "INVALID_CURSOR")
  ELSE [base EXCEPT !.cursor = ValidatedCursor(cursor), !.pc = "cat_query",
                    !.dbCalls = @ + 1]

\* getAllCategories(cursor, limit = 10) up to its first await.
CatListStart(rec, cursor, limit) ==
  CatCursorCheck([rec EXCEPT
                    !.op = "catlist", !.cursor = cursor, !.given = cursor,
                    !.limit = IF limit = Undef THEN Num(DefaultCategoryLimit)
                              ELSE limit],
                 cursor)

\* getCategoryById(id, cursor, limit = 10) up to its first await.
CatGetStart(rec, id, cursor, limit) ==
  LET base == [rec EXCEPT
                 !.op = "catget", !.cursor = cursor, !.given = cursor,
                 !.limit = IF limit = Undef THEN Num(DefaultCategoryLimit)
                           ELSE limit]
  IN IF IdRejected(id) THEN Finished(base, 400, "INVALID_CATEGORY_ID")
     ELSE CatCursorCheck([base EXCEPT !.id = ParseInt(id)[2]], cursor)

StartCatList(r, cursor, limit) ==
  /\ req[r].pc = "idle"
  /\ Set(r, CatListStart([Idle EXCEPT !.route = "fn"], cursor, limit))
  /\ UNCHANGED <<dbVars, redisVars, ghostVars>>

StartCatGet(r, id, cursor, limit) ==
  /\ req[r].pc = "idle"
  /\ Set(r, CatGetStart([Idle EXCEPT !.route = "fn"], id, cursor, limit))
  /\ UNCHANGED <<dbVars, redisVars, ghostVars>>

\* pool.query resolves: getAllCategories builds its page; getCategoryById
\* returns null without the category and else queries its products.
CatQueryOk(r) ==
  /\ req[r].pc = "cat_query"
  /\ IF req[r].op = "catlist"
     THEN /\ LimitParamOk([req[r] EXCEPT !.op = "list"])
          /\ Set(r, Finished(
                 [req[r] EXCEPT !.data = PageData(MakePage(
                    SelectCategories(categories, CurInt(req[r]),
                                     req[r].limit[2] + 1),
                    req[r].limit[2]))],
                 200, ""))
     ELSE Set(r, IF req[r].id \in categories
                 THEN [req[r] EXCEPT !.pc = "cat_products", !.dbCalls = @ + 1]
                 ELSE Finished([req[r] EXCEPT !.data = Null], 404, ""))
  /\ UNCHANGED <<dbVars, redisVars, ghostVars>>

\* The products query of getCategoryById resolves.
CatProductsOk(r) ==
  /\ req[r].pc = "cat_products"
  /\ LimitParamOk([req[r] EXCEPT !.op = "list"])
  /\ Set(r, Finished(
         [req[r] EXCEPT !.data = PageData(MakePage(
            SelectProductsOfCategory(products, req[r].id, CurInt(req[r]),
                                     req[r].limit[2] + 1),
            req[r].limit[2]))],
         200, ""))
  /\ UNCHANGED <<dbVars, redisVars, ghostVars>>

\* pool.query rejects: handleDatabaseError, a 500.
CatQueryThrow(r) ==
  /\ req[r].pc \in {"cat_query", "cat_products"}
  /\ Set(r, Finished(
         [req[r] EXCEPT
            !.dbErr = \/ (req[r].op = "catget" /\ req[r].pc = "cat_query")
                      \/ LimitParamOk([req[r] EXCEPT !.op = "list"])],
         500, "INTERNAL_ERROR"))
  /\ UNCHANGED <<dbVars, redisVars, ghostVars>>

\* ------------------------------------------------------------------- routes

\* Math.min(Math.max(parseInt(req.query.limit || '10', 10), 1), 100)
ClampLimit(raw) ==
  MathMin(MathMax(ParseInt(OrElse(raw, Str(<<"1", "0">>))), Num(1)), Num(100))

\* GET /api/products: the handler calls
\* getAllProductsPaginated(cursor, limit, req), whose parameters are
\* (categoryId, cursor, limit, req).
RouteGetProducts(r, cursor, limit) ==
  /\ req[r].pc = "idle"
  /\ Set(r, ListStart([Idle EXCEPT !.route = "GET /api/products",
                                   !.qCursor = cursor, !.qLimit = limit],
                      cursor, ClampLimit(limit), ReqObj))
  /\ UNCHANGED <<dbVars, redisVars, ghostVars>>

\* GET /api/categories: getAllCategories(cursor, limit).
RouteGetCategories(r, cursor, limit) ==
  /\ req[r].pc = "idle"
  /\ Set(r, CatListStart([Idle EXCEPT !.route = "GET /api/categories",
                                      !.qCursor = cursor, !.qLimit = limit],
                         cursor, ClampLimit(limit)))
  /\ UNCHANGED <<dbVars, redisVars, ghostVars>>

\* GET /api/categories/:id: getCategoryById(req.params.id, cursor, limit).
RouteGetCategoryById(r, id, cursor, limit) ==
  /\ req[r].pc = "idle"
  /\ Set(r, CatGetStart([Idle EXCEPT !.route = "GET /api/categories/:id",
                                     !.qCursor = cursor, !.qLimit = limit],
                        id, cursor, ClampLimit(limit)))
  /\ UNCHANGED <<dbVars, redisVars, ghostVars>>

RawCursors ==
  {Undef, Str(<<>>), Str(<<"a", "b", "c">>), Str(<<"0">>), Str(<<"-", "3">>),
   Str(<<"1", ".", "5">>), Str(<<"1", "2", "a", "b", "c">>), Str(<<"2">>)}

RawLimits ==
  {Undef, Str(<<"0">>), Str(<<"-", "1">>), Str(<<"5", "0", "0">>),
   Str(<<"a", "b", "c">>), Str(<<"2">>)}

RouteCategoryIds == {Str(<<"1">>), Str(<<"9">>)}

RouteProducts == {Row(1, 1, 0), Row(2, 2, 0), Row(3, 1, 0)}

RouteInit ==
  /\ products = RouteProducts
  /\ categories = SeedCategories
  /\ nextId = MaxId + 1
  /\ audit = <<>>
  /\ replicaOn = FALSE
  /\ replica = products
  /\ writes = 0
  /\ redisClient = "client"
  /\ isRedisEnabled \in BOOLEAN
  /\ redis = <<>>
  /\ req = [s \in {1} |-> Idle]
  /\ client = [limit |-> Num(2), categoryId |-> Undef]
  /\ trav = NoTrav
  /\ lastWriteOk = TRUE
  /\ completed = [i \in 1..MaxId |-> 0]
  /\ SideInit

\* Clients call the three pagers and the three list routes with raw query
\* strings.
RouteNext ==
  \/ \E r \in DOMAIN req, cur \in RawCursors :
       StartList(r, Undef, cur, client.limit)
  \/ \E r \in DOMAIN req, cur \in RawCursors :
       StartCatList(r, cur, client.limit)
  \/ \E r \in DOMAIN req, id \in RouteCategoryIds, cur \in RawCursors :
       StartCatGet(r, id, cur, client.limit)
  \/ \E r \in DOMAIN req, cur \in RawCursors, lim \in RawLimits :
       RouteGetProducts(r, cur, lim)
  \/ \E r \in DOMAIN req, cur \in RawCursors, lim \in RawLimits :
       RouteGetCategories(r, cur, lim)
  \/ \E r \in DOMAIN req, id \in RouteCategoryIds, cur \in RawCursors,
          lim \in RawLimits :
       RouteGetCategoryById(r, id, cur, lim)
  \/ \E r \in DOMAIN req : GcGetHit(r)
  \/ \E r \in DOMAIN req : GcGetMiss(r)
  \/ \E r \in DOMAIN req : GcGetThrow(r)
  \/ \E r \in DOMAIN req : FetchOk(r)
  \/ \E r \in DOMAIN req : FetchThrow(r)
  \/ \E r \in DOMAIN req : SetexOk(r)
  \/ \E r \in DOMAIN req : SetexThrow(r)
  \/ \E r \in DOMAIN req : CatQueryOk(r)
  \/ \E r \in DOMAIN req : CatProductsOk(r)
  \/ \E r \in DOMAIN req : CatQueryThrow(r)
  \/ \E r \in DOMAIN req : Finish(r)

RouteSpec == RouteInit /\ [][RouteNext]_vars

\* ------------------------------------------------------ concurrent requests

\* The replica applies what the primary committed.
Replicate ==
  /\ replicaOn
  /\ replica # products
  /\ replica' = products
  /\ UNCHANGED <<products, categories, nextId, audit, sideVars, writes,
                 redisVars, req, ghostVars>>

ConcInit ==
  /\ products = SeedProducts
  /\ categories = SeedCategories
  /\ nextId = 2
  /\ audit = <<>>
  /\ replicaOn \in BOOLEAN
  /\ replica = products
  /\ writes = 0
  /\ redisClient = "client"
  /\ isRedisEnabled = TRUE
  /\ redis = <<>>
  /\ req = [s \in 1..Slots |-> Idle]
  /\ client = [limit |-> Num(1), categoryId |-> Undef]
  /\ trav = NoTrav
  /\ lastWriteOk = TRUE
  /\ completed = [i \in 1..MaxId |-> 0]
  /\ SideInit

\* Reads and updates of product 1 overlap; the cache stays up and no call
\* fails.
ConcNext ==
  \/ \E r \in DOMAIN req : StartGet(r, Num(1))
  \/ \E r \in DOMAIN req : StartUpdate(r, Num(1), FALSE)
  \/ \E r \in DOMAIN req : GcGetHit(r)
  \/ \E r \in DOMAIN req : GcGetMiss(r)
  \/ \E r \in DOMAIN req : FetchOk(r)
  \/ \E r \in DOMAIN req : SetexOk(r)
  \/ \E r \in DOMAIN req : WriteSqlOk(r)
  \/ \E r \in DOMAIN req : InvKeysOk(r)
  \/ \E r \in DOMAIN req : InvDelOk(r)
  \/ \E r \in DOMAIN req : AuditOk(r)
  \/ \E r \in DOMAIN req : Finish(r)
  \/ Replicate

ConcSpec == ConcInit /\ [][ConcNext]_vars

\* Products are created and read by id, the reads before, while and after
\* the product is created; the cache stays up and no call fails.
CreateReadInit ==
  /\ products = SeedProducts
  /\ categories = SeedCategories
  /\ nextId = 2
  /\ audit = <<>>
  /\ replicaOn \in BOOLEAN
  /\ replica = products
  /\ writes = 0
  /\ redisClient = "client"
  /\ isRedisEnabled = TRUE
  /\ redis = <<>>
  /\ req = [s \in 1..Slots |-> Idle]
  /\ client = [limit |-> Num(1), categoryId |-> Undef]
  /\ trav = NoTrav
  /\ lastWriteOk = TRUE
  /\ completed = [i \in 1..MaxId |-> 0]
  /\ SideInit

CreateReadNext ==
  \/ \E r \in DOMAIN req, id \in 2..MaxId : StartGet(r, Num(id))
  \/ \E r \in DOMAIN req : StartCreate(r, Num(1))
  \/ \E r \in DOMAIN req : GcGetHit(r)
  \/ \E r \in DOMAIN req : GcGetMiss(r)
  \/ \E r \in DOMAIN req : FetchOk(r)
  \/ \E r \in DOMAIN req : SetexOk(r)
  \/ \E r \in DOMAIN req : ConnectOk(r)
  \/ \E r \in DOMAIN req : BeginOk(r)
  \/ \E r \in DOMAIN req : CatCheckOk(r)
  \/ \E r \in DOMAIN req : InsertOk(r)
  \/ \E r \in DOMAIN req : CommitOk(r)
  \/ \E r \in DOMAIN req : InvKeysOk(r)
  \/ \E r \in DOMAIN req : InvDelOk(r)
  \/ \E r \in DOMAIN req : AuditOk(r)
  \/ \E r \in DOMAIN req : Finish(r)
  \/ Replicate

CreateReadSpec == CreateReadInit /\ [][CreateReadNext]_vars

\* ----------------------------------------------------------- category writes

IsCategoryWrite(rec) == rec.op \in {"catcreate", "catupdate", "catdelete"}

\* createCategory(name, description) up to its await.
StartCategoryCreate(r) ==
  /\ req[r].pc = "idle"
  /\ nextCategoryId <= MaxCategoryId
  /\ Set(r, [Idle EXCEPT !.op = "catcreate", !.route = "fn",
                         !.pc = "cat_write", !.dbCalls = 1])
  /\ UNCHANGED <<dbVars, redisVars, ghostVars>>

\* updateCategory(id, name, description) up to its await: the id check,
\* then the fields given.
StartCategoryUpdate(r, id, nofields) ==
  /\ req[r].pc = "idle"
  /\ LET rec == [Idle EXCEPT !.op = "catupdate", !.route = "fn",
                             !.nofields = nofields]
     IN Set(r, IF IdRejected(id)
               THEN Finished(rec, 400, "INVALID_CATEGORY_ID")
               ELSE IF nofields
               THEN Finished([rec EXCEPT !.id = ParseInt(id)[2]],
                             400, "NO_UPDATE_FIELDS")
               ELSE [rec EXCEPT !.id = ParseInt(id)[2], !.pc = "cat_write",
                                !.dbCalls = 1])
  /\ UNCHANGED <<dbVars, redisVars, ghostVars>>

\* deleteCategory(id) up to its await.
StartCategoryDelete(r, id) ==
  /\ req[r].pc = "idle"
  /\ LET rec == [Idle EXCEPT !.op = "catdelete", !.route = "fn"]
     IN Set(r, IF IdRejected(id)
               THEN Finished(rec, 400, "INVALID_CATEGORY_ID")
               ELSE [rec EXCEPT !.id = ParseInt(id)[2], !.pc = "cat_write",
                                !.dbCalls = 1])
  /\ UNCHANGED <<dbVars, redisVars, ghostVars>>

\* The INSERT / UPDATE / DELETE on categories resolves and the controller
\* returns the row, or null when no row matched. Deleting a category
\* deletes its products (ON DELETE CASCADE).
CatWriteOk(r) ==
  /\ req[r].pc = "cat_write"
  /\ LET rec == req[r]
         row == [id |-> IF rec.op = "catcreate" THEN nextCategoryId
                        ELSE rec.id]
         found == rec.op = "catcreate" \/ rec.id \in categories
     IN /\ categories' =
             CASE rec.op = "catcreate" -> categories \cup {nextCategoryId}
               [] rec.op = "catdelete" -> categories \ {rec.id}
               [] OTHER -> categories
        /\ nextCategoryId' =
             IF rec.op = "catcreate" THEN nextCategoryId + 1
             ELSE nextCategoryId
        /\ products' =
             IF rec.op = "catdelete"
             THEN {q \in products : q.category_id # rec.id}
             ELSE products
        /\ Set(r, IF found
                  THEN Finished([rec EXCEPT !.id = row.id, !.committed = TRUE,
                                            !.data = RowData(row)],
                                IF rec.op = "catcreate" THEN 201 ELSE 200, "")
                  ELSE Finished([rec EXCEPT !.data = Null], 404, ""))
  /\ UNCHANGED <<nextId, audit, replicaOn, routed, limiterVars, procVars,
                 apiTokens, replica, writes, redisVars, ghostVars>>

\* The statement rejects: handleDatabaseError makes a 409 of a duplicate
\* name and a 500 of anything else.
CatWriteThrow(r, duplicate) ==
  /\ req[r].pc = "cat_write"
  /\ duplicate => req[r].op \in {"catcreate", "catupdate"}
  /\ Set(r, IF duplicate
            THEN Finished(req[r], 409, "DUPLICATE_ENTRY")
            ELSE Finished([req[r] EXCEPT !.dbErr = TRUE], 500,
                          "INTERNAL_ERROR"))
  /\ UNCHANGED <<dbVars, redisVars, ghostVars>>

AuditCategoryIds == {Num(1), Num(9)}

AuditInit ==
  /\ products = SeedProducts
  /\ categories = SeedCategories
  /\ nextId = 2
  /\ audit = <<>>
  /\ replicaOn = FALSE
  /\ replica = SeedProducts
  /\ writes = 0
  /\ redisClient = "null"
  /\ isRedisEnabled = FALSE
  /\ redis = <<>>
  /\ req = [s \in {1} |-> Idle]
  /\ client = [limit |-> Num(1), categoryId |-> Undef]
  /\ trav = NoTrav
  /\ lastWriteOk = TRUE
  /\ completed = [i \in 1..MaxId |-> 0]
  /\ SideInit

\* Products and categories are written, one request at a time, without a
\* cache; the audit insert may fail.
AuditNext ==
  \/ \E r \in DOMAIN req : StartCreate(r, Num(1))
  \/ \E r \in DOMAIN req : StartUpdate(r, Num(1), FALSE)
  \/ \E r \in DOMAIN req : StartDelete(r, Num(1))
  \/ \E r \in DOMAIN req : StartCategoryCreate(r)
  \/ \E r \in DOMAIN req, id \in AuditCategoryIds, nofields \in BOOLEAN :
       StartCategoryUpdate(r, id, nofields)
  \/ \E r \in DOMAIN req, id \in AuditCategoryIds : StartCategoryDelete(r, id)
  \/ \E r \in DOMAIN req : FetchOk(r)
  \/ \E r \in DOMAIN req : WriteSqlOk(r)
  \/ \E r \in DOMAIN req : ConnectOk(r)
  \/ \E r \in DOMAIN req : BeginOk(r)
  \/ \E r \in DOMAIN req : CatCheckOk(r)
  \/ \E r \in DOMAIN req : RollbackInnerOk(r)
  \/ \E r \in DOMAIN req : RollbackOk(r)
  \/ \E r \in DOMAIN req : InsertOk(r)
  \/ \E r \in DOMAIN req : CommitOk(r)
  \/ \E r \in DOMAIN req : AuditOk(r)
  \/ \E r \in DOMAIN req : AuditThrow(r)
  \/ \E r \in DOMAIN req : CatWriteOk(r)
  \/ \E r \in DOMAIN req, duplicate \in BOOLEAN : CatWriteThrow(r, duplicate)
  \/ \E r \in DOMAIN req : Finish(r)

AuditSpec == AuditInit /\ [][AuditNext]_vars

\* A category is deleted between reads of its products, one call at a time,
\* with the cache up or down.
CascadeInit ==
  /\ products = RouteProducts
  /\ categories = SeedCategories
  /\ nextId = MaxId + 1
  /\ audit = <<>>
  /\ replicaOn = FALSE
  /\ replica = products
  /\ writes = 0
  /\ redisClient = "client"
  /\ isRedisEnabled \in BOOLEAN
  /\ redis = <<>>
  /\ req = [s \in {1} |-> Idle]
  /\ client = [limit |-> Num(1), categoryId |-> Undef]
  /\ trav = NoTrav
  /\ lastWriteOk = TRUE
  /\ completed = [i \in 1..MaxId |-> 0]
  /\ SideInit

CascadeNext ==
  \/ \E r \in DOMAIN req, id \in {Num(1), Num(2)} : StartGet(r, id)
  \/ \E r \in DOMAIN req, categoryId \in PagerCategoryIds :
       StartList(r, categoryId, Undef, Num(1))
  \/ \E r \in DOMAIN req, id \in AuditCategoryIds : StartCategoryDelete(r, id)
  \/ \E r \in DOMAIN req : CatWriteOk(r)
  \/ \E r \in DOMAIN req : GcGetHit(r)
  \/ \E r \in DOMAIN req : GcGetMiss(r)
  \/ \E r \in DOMAIN req : FetchOk(r)
  \/ \E r \in DOMAIN req : SetexOk(r)
  \/ \E r \in DOMAIN req : Finish(r)

CascadeSpec == CascadeInit /\ [][CascadeNext]_vars

\* ----------------------------------------------------------- routed queries

\* A caller awaits query(sql, params, options).
Query(sql, forcePrimary) ==
  /\ routed' = [sql |-> sql, forcePrimary |-> forcePrimary,
                 pool |-> ServerOf(TargetPool(IsWriteSql(sql), forcePrimary))]
  /\ UNCHANGED <<products, categories, nextId, audit, replicaOn,
                 nextCategoryId, limiterVars, procVars, apiTokens, replica,
                 writes, redisVars, req, ghostVars>>

\* How the statements sent to query() begin: the write keywords in upper,
\* lower and mixed case, reads, transaction control, a read that locks, a
\* comment, a truncated keyword and the empty text.
SqlBodies ==
  WriteKeywords
    \cup {LowerCase(kw) : kw \in WriteKeywords}
    \cup {<<Head(kw)>> \o LowerCase(Tail(kw)) : kw \in WriteKeywords}
    \cup {KwSelect, LowerCase(KwSelect),
          KwSelect \o <<" ", "F", "O", "R", " ">> \o KwUpdate,
          <<"W", "I", "T", "H">>, <<"B", "E", "G", "I", "N">>,
          <<"-", "-", "\n">> \o KwInsert, <<"(">> \o KwDelete,
          <<"I", "N", "S", "E", "R">>, <<>>}

SqlLeading == {<<>>, <<" ">>, <<"\n", " ", " ">>, <<"\t">>}

SqlTexts ==
  {lead \o body \o <<" ", "x">> : lead \in SqlLeading, body \in SqlBodies}

QueryInit ==
  /\ products = SeedProducts
  /\ categories = SeedCategories
  /\ nextId = 2
  /\ audit = <<>>
  /\ replicaOn \in BOOLEAN
  /\ replica = products
  /\ writes = 0
  /\ redisClient = "null"
  /\ isRedisEnabled = FALSE
  /\ redis = <<>>
  /\ req = [s \in {1} |-> Idle]
  /\ client = [limit |-> Num(1), categoryId |-> Undef]
  /\ trav = NoTrav
  /\ lastWriteOk = TRUE
  /\ completed = [i \in 1..MaxId |-> 0]
  /\ SideInit

QueryNext ==
  \E sql \in SqlTexts, forcePrimary \in BOOLEAN : Query(sql, forcePrimary)

QuerySpec == QueryInit /\ [][QueryNext]_vars

\* -------------------------------------------------------------- rate limiter

\* MemoryStore.increment with the window test now >= resetTime.
IncrementAtReset(store, key, t) ==
  IF (IF key \in DOMAIN store.resetTime THEN t >= store.resetTime[key]
      ELSE TRUE)
  THEN [store |-> [hits |-> StoreSet(store.hits, key, 1),
                   resetTime |-> StoreSet(store.resetTime, key, t + WindowMs)],
        totalHits |-> 1]
  ELSE LET hits == (IF key \in DOMAIN store.hits THEN store.hits[key] ELSE 0)
                   + 1
       IN [store |-> [store EXCEPT !.hits = StoreSet(store.hits, key, hits)],
           totalHits |-> hits]

\* MemoryStore.increment(key) at time t: the new maps and the totalHits
\* it returns.
Increment(store, key, t) ==
  IF (IF key \in DOMAIN store.resetTime THEN t > store.resetTime[key]
      ELSE TRUE)
  THEN [store |-> [hits |-> StoreSet(store.hits, key, 1),
                   resetTime |-> StoreSet(store.resetTime, key, t + WindowMs)],
        totalHits |-> 1]
  ELSE LET hits == (IF key \in DOMAIN store.hits THEN store.hits[key] ELSE 0)
                   + 1
       IN [store |-> [store EXCEPT !.hits = StoreSet(store.hits, key, hits)],
           totalHits |-> hits]

\* The setInterval callback of the MemoryStore constructor.
Cleanup ==
  /\ rateStore # "none"
  /\ LET old == {k \in DOMAIN memoryStore.resetTime :
                   now > memoryStore.resetTime[k]}
     IN memoryStore' = [hits |-> StoreDel(memoryStore.hits, old),
                        resetTime |-> StoreDel(memoryStore.resetTime, old)]
  /\ UNCHANGED <<products, categories, nextId, audit, replicaOn,
                 nextCategoryId, routed, rateStore, redisHits, now, answer,
                 rlLog, listening, replica, writes, redisVars, req, ghostVars,
                 procVars, apiTokens>>

\* Date.now() moves on.
Tick ==
  /\ now < MaxTime
  /\ now' = now + 1
  /\ UNCHANGED <<products, categories, nextId, audit, replicaOn,
                 nextCategoryId, routed, rateStore, memoryStore, redisHits,
                 answer, rlLog, listening, replica, writes, redisVars, req,
                 ghostVars, procVars, apiTokens>>

\* require('./middleware/rateLimiter'): the module builds the global
\* limiter, choosing its store by isRedisAvailable() at that moment.
LoadRateLimiter ==
  /\ rateStore = "none"
  /\ rateStore' = IF CacheUp THEN "redis" ELSE "memory"
  /\ memoryStore' = EmptyMemoryStore
  /\ UNCHANGED <<products, categories, nextId, audit, replicaOn,
                 nextCategoryId, routed, redisHits, now, answer, rlLog,
                 listening, replica, writes, redisVars, req, ghostVars,
                 procVars, apiTokens>>

\* startServer() up to its first await: initializeRedis() makes the client
\* when REDIS_URL is set. server.js has required the rate limiter and
\* installed it on the app before.
StartServer(redisUrl) ==
  /\ rateStore # "none"
  /\ ~started
  /\ started' = TRUE
  /\ redisClient' = IF redisUrl THEN "client" ELSE redisClient
  /\ UNCHANGED <<products, categories, nextId, audit, replicaOn,
                 nextCategoryId, routed, limiterVars, signals, cronStopped,
                 httpState, closers, redisQuits, isShuttingDown, poolState,
                 poolEnds, exit, forceTimers, replica, writes,
                 isRedisEnabled, redisEvent, redis, req, ghostVars, apiTokens>>

\* startServer() after its awaits: server = app.listen(PORT).
Listen ==
  /\ started
  /\ ~listening
  /\ ~exit.done
  /\ listening' = TRUE
  /\ httpState' = "open"
  /\ UNCHANGED <<products, categories, nextId, audit, replicaOn,
                 nextCategoryId, routed, rateStore, memoryStore, redisHits,
                 now, answer, rlLog, started, signals, cronStopped, closers,
                 redisQuits, isShuttingDown, poolState, poolEnds, exit,
                 forceTimers, replica, writes, redisVars, req, ghostVars,
                 apiTokens>>

SkipPaths == {"/health", "/metrics", "/api-tester"}

RequestPaths == SkipPaths \cup {"/api/products"}

\* The global limiter on a request of client key `key` to `path`:
\* skipped paths go on uncounted; otherwise the store counts the request
\* and the handler answers 429 when totalHits is above max.
LimitRequest(key, path) ==
  /\ listening
  /\ IF path \in SkipPaths
     THEN /\ answer' = [NoAnswer EXCEPT !.key = key, !.path = path]
          /\ UNCHANGED <<memoryStore, redisHits, rlLog>>
     ELSE /\ Len(rlLog[key]) < MaxLog
          /\ rlLog' = [rlLog EXCEPT ![key] = Append(@, now)]
          /\ LET inc == Increment(memoryStore, key, now)
                 totalHits == IF rateStore = "redis" THEN redisHits[key] + 1
                              ELSE inc.totalHits
             IN /\ memoryStore' = IF rateStore = "redis" THEN memoryStore
                                  ELSE inc.store
                /\ redisHits' = IF rateStore = "redis"
                                THEN [redisHits EXCEPT ![key] = @ + 1]
                                ELSE redisHits
                /\ answer' = [key |-> key, path |-> path, counted |-> TRUE,
                              totalHits |-> totalHits,
                              status |-> IF totalHits > MaxRequests THEN 429
                                         ELSE 0,
                              store |-> rateStore, redisUp |-> CacheUp]
  /\ UNCHANGED <<products, categories, nextId, audit, replicaOn,
                 nextCategoryId, routed, rateStore, now, listening, replica,
                 writes, redisVars, req, ghostVars, procVars, apiTokens>>

\* The process before server.js runs: nothing required, nothing started.
LimiterInit ==
  /\ products = SeedProducts
  /\ categories = SeedCategories
  /\ nextId = 2
  /\ audit = <<>>
  /\ replicaOn = FALSE
  /\ replica = SeedProducts
  /\ writes = 0
  /\ redisClient = "null"
  /\ isRedisEnabled = FALSE
  /\ redis = <<>>
  /\ req = [s \in {1} |-> Idle]
  /\ client = [limit |-> Num(1), categoryId |-> Undef]
  /\ trav = NoTrav
  /\ lastWriteOk = TRUE
  /\ completed = [i \in 1..MaxId |-> 0]
  /\ created = {}
  /\ nextCategoryId = 3
  /\ routed = NoQuery
  /\ rateStore = "none"
  /\ memoryStore = EmptyMemoryStore
  /\ redisHits = [k \in ClientKeys |-> 0]
  /\ now = 0
  /\ answer = NoAnswer
  /\ rlLog = [k \in ClientKeys |-> <<>>]
  /\ listening = FALSE
  /\ started = FALSE
  /\ apiTokens = {}
  /\ httpState = "none"
  /\ ProcInit

LimiterNext ==
  \/ LoadRateLimiter
  \/ \E redisUrl \in BOOLEAN : StartServer(redisUrl)
  \/ Listen
  \/ RedisConnect
  \/ RedisDown
  \/ Tick
  \/ Cleanup
  \/ \E key \in ClientKeys, path \in RequestPaths : LimitRequest(key, path)

LimiterSpec == LimiterInit /\ [][LimiterNext]_vars

\* ------------------------------------------------------------------ shutdown

\* What a shutdown step leaves alone.
appVars ==
  <<products, categories, nextId, audit, replicaOn, nextCategoryId, routed,
    limiterVars, replica, writes, redisVars, req, ghostVars, apiTokens>>

\* process.on('SIGTERM' / 'SIGINT'): gracefulShutdown(signal) runs. The
\* cron task is stopped; with `server` assigned, server.close(callback) is
\* called and a forced-shutdown timer is armed.
Signal ==
  /\ started
  /\ ~exit.done
  /\ signals < MaxSignals
  /\ signals' = signals + 1
  /\ cronStopped' = TRUE
  /\ IF listening
     THEN /\ httpState' = IF httpState = "open" THEN "closing" ELSE httpState
          /\ closers' = Append(closers, "wait")
          /\ forceTimers' = forceTimers + 1
     ELSE UNCHANGED <<httpState, closers, forceTimers>>
  /\ UNCHANGED <<appVars, started, redisQuits, isShuttingDown, poolState,
                 poolEnds, exit>>

\* The last open connection ends: the server emits 'close'.
HttpClosed ==
  /\ ~exit.done
  /\ httpState = "closing"
  /\ httpState' = "closed"
  /\ UNCHANGED <<appVars, started, signals, cronStopped, closers, redisQuits,
                 isShuttingDown, poolState, poolEnds, exit, forceTimers>>

\* The callback given to server.close runs up to `await closeRedis()`:
\* closeRedis calls quit() on the client when there is one.
CloserStart(i) ==
  /\ ~exit.done
  /\ httpState = "closed"
  /\ closers[i] = "wait"
  /\ closers' = [closers EXCEPT ![i] = "redis"]
  /\ redisQuits' = IF redisClient = "client" THEN redisQuits + 1
                   ELSE redisQuits
  /\ UNCHANGED <<appVars, started, signals, cronStopped, httpState,
                 isShuttingDown, poolState, poolEnds, exit, forceTimers>>

\* closeRedis() resolves (a rejected quit is caught inside it) and the
\* callback calls closePool() up to its first await: with the flag up
\* closePool returns at once, else it raises the flag and ends the
\* primary pool.
RedisClosed(i) ==
  /\ ~exit.done
  /\ closers[i] = "redis"
  /\ IF isShuttingDown
     THEN /\ closers' = [closers EXCEPT ![i] = "exit"]
          /\ UNCHANGED <<isShuttingDown, poolState, poolEnds>>
     ELSE /\ isShuttingDown' = TRUE
          /\ poolState' = [poolState EXCEPT !.pool = "ending"]
          /\ poolEnds' = [poolEnds EXCEPT !.pool = @ + 1]
          /\ closers' = [closers EXCEPT ![i] = "pool"]
  /\ UNCHANGED <<appVars, started, signals, cronStopped, httpState,
                 redisQuits, exit, forceTimers>>

\* pool.end() resolves; with a read replica (readPool !== pool) closePool
\* goes on to readPool.end(), else it returns.
PoolEnded(i) ==
  /\ ~exit.done
  /\ closers[i] = "pool"
  /\ IF replicaOn
     THEN /\ poolState' = [poolState EXCEPT !.pool = "ended",
                                            !.readPool = "ending"]
          /\ poolEnds' = [poolEnds EXCEPT !.readPool = @ + 1]
          /\ closers' = [closers EXCEPT ![i] = "readpool"]
     ELSE /\ poolState' = [poolState EXCEPT !.pool = "ended"]
          /\ closers' = [closers EXCEPT ![i] = "exit"]
          /\ UNCHANGED poolEnds
  /\ UNCHANGED <<appVars, started, signals, cronStopped, httpState,
                 redisQuits, isShuttingDown, exit, forceTimers>>

\* readPool.end() resolves and closePool returns.
ReadPoolEnded(i) ==
  /\ ~exit.done
  /\ closers[i] = "readpool"
  /\ poolState' = [poolState EXCEPT !.readPool = "ended"]
  /\ closers' = [closers EXCEPT ![i] = "exit"]
  /\ UNCHANGED <<appVars, started, signals, cronStopped, httpState,
                 redisQuits, isShuttingDown, poolEnds, exit, forceTimers>>

\* end() rejects: closePool rethrows and the callback's catch exits with 1.
PoolEndThrows(i) ==
  /\ ~exit.done
  /\ closers[i] \in {"pool", "readpool"}
  /\ exit' = [done |-> TRUE, code |-> 1]
  /\ UNCHANGED <<appVars, started, signals, cronStopped, httpState, closers,
                 redisQuits, isShuttingDown, poolState, poolEnds, forceTimers>>

\* `await closePool()` is over: process.exit(0).
ExitGraceful(i) ==
  /\ ~exit.done
  /\ closers[i] = "exit"
  /\ exit' = [done |-> TRUE, code |-> 0]
  /\ UNCHANGED <<appVars, started, signals, cronStopped, httpState, closers,
                 redisQuits, isShuttingDown, poolState, poolEnds, forceTimers>>

\* A forced-shutdown timer fires: process.exit(1).
ForceShutdown ==
  /\ ~exit.done
  /\ forceTimers > 0
  /\ exit' = [done |-> TRUE, code |-> 1]
  /\ UNCHANGED <<appVars, started, signals, cronStopped, httpState, closers,
                 redisQuits, isShuttingDown, poolState, poolEnds, forceTimers>>

\* An await of startServer() rejects before app.listen: process.exit(1).
StartupFails ==
  /\ ~exit.done
  /\ started
  /\ ~listening
  /\ exit' = [done |-> TRUE, code |-> 1]
  /\ UNCHANGED <<appVars, started, signals, cronStopped, httpState, closers,
                 redisQuits, isShuttingDown, poolState, poolEnds, forceTimers>>

\* server.js has been loaded: the limiter is built, the signal handlers
\* are installed and startServer() is about to be called.
ShutdownInit ==
  /\ products = SeedProducts
  /\ categories = SeedCategories
  /\ nextId = 2
  /\ audit = <<>>
  /\ replicaOn \in BOOLEAN
  /\ replica = SeedProducts
  /\ writes = 0
  /\ redisClient = "null"
  /\ isRedisEnabled = FALSE
  /\ redis = <<>>
  /\ req = [s \in {1} |-> Idle]
  /\ client = [limit |-> Num(1), categoryId |-> Undef]
  /\ trav = NoTrav
  /\ lastWriteOk = TRUE
  /\ completed = [i \in 1..MaxId |-> 0]
  /\ created = {}
  /\ nextCategoryId = 3
  /\ routed = NoQuery
  /\ rateStore = "memory"
  /\ memoryStore = EmptyMemoryStore
  /\ redisHits = [k \in ClientKeys |-> 0]
  /\ now = 0
  /\ answer = NoAnswer
  /\ rlLog = [k \in ClientKeys |-> <<>>]
  /\ listening = FALSE
  /\ started = FALSE
  /\ apiTokens = {}
  /\ httpState = "none"
  /\ ProcInit

ShutdownNext ==
  \/ \E redisUrl \in BOOLEAN : StartServer(redisUrl)
  \/ Listen
  \/ StartupFails
  \/ Signal
  \/ HttpClosed
  \/ \E i \in DOMAIN closers : CloserStart(i)
  \/ \E i \in DOMAIN closers : RedisClosed(i)
  \/ \E i \in DOMAIN closers : PoolEnded(i)
  \/ \E i \in DOMAIN closers : ReadPoolEnded(i)
  \/ \E i \in DOMAIN closers : PoolEndThrows(i)
  \/ \E i \in DOMAIN closers : ExitGraceful(i)
  \/ ForceShutdown

ShutdownSpec == ShutdownInit /\ [][ShutdownNext]_vars

\* The steps the process takes by itself once they are possible: the rest
\* of startup, the continuations of resolved promises, an armed timer.
\* Signals come from outside and open connections may never end.
ShutdownFairness ==
  /\ WF_vars(\E redisUrl \in BOOLEAN : StartServer(redisUrl))
  /\ WF_vars(Listen \/ StartupFails)
  /\ WF_vars(\E i \in DOMAIN closers : CloserStart(i))
  /\ WF_vars(\E i \in DOMAIN closers : RedisClosed(i))
  /\ WF_vars(\E i \in DOMAIN closers : PoolEnded(i) \/ PoolEndThrows(i))
  /\ WF_vars(\E i \in DOMAIN closers : ReadPoolEnded(i) \/ PoolEndThrows(i))
  /\ WF_vars(\E i \in DOMAIN closers : ExitGraceful(i))
  /\ WF_vars(ForceShutdown)

ShutdownLiveSpec == ShutdownSpec /\ ShutdownFairness

\* ---------------------------------------------------------------- properties

Range(s) == {s[i] : i \in 1..Len(s)}

StrictlyDescending(s) == \A i, j \in 1..Len(s) : i < j => s[i] > s[j]

\* The ids of the products a list call with this filter can return.
MatchingIds(categoryId) ==
  {p.id : p \in {q \in products :
                   categoryId = Undef \/ q.category_id = ParseInt(categoryId)[2]}}

\* C1 (pagination completeness): on a product set that does not change
\* during the traversal, the pages got by calling getAllProductsPaginated
\* without a cursor and then with each returned nextCursor list products in
\* strictly descending id order without duplicates; the traversal ends after
\* at most N + 1 calls, with nextCursor null, and has then returned every
\* matching product exactly once.
PaginationComplete ==
  trav.clean =>
    /\ StrictlyDescending(trav.seen)
    /\ Range(trav.seen) \subseteq MatchingIds(client.categoryId)
    /\ trav.pages <= Cardinality(MatchingIds(client.categoryId)) + 1
    /\ trav.finished =>
         /\ Range(trav.seen) = MatchingIds(client.categoryId)
         /\ trav.cursor = Null

\* A traversal of three products in three pages has ended.
PaginationCompleteWitness ==
  /\ trav.finished
  /\ trav.clean
  /\ trav.pages = 3
  /\ Len(trav.seen) = 3

\* The ids a single list call may return: those matching below its cursor.
BelowCursor(rec) ==
  {i \in MatchingIds(rec.categoryId) : rec.cursor = Undef \/ i < rec.cursor[2]}

CacheIdempotenceJson ==
  \A r \in DOMAIN req :
    (req[r].pc = "done" /\ IsRead(req[r]) /\ req[r].hit) =>
      /\ req[r].fetches = 0
      /\ req[r].srcFetches = 1
      /\ req[r].data = JsonRoundTrip(req[r].src)

\* C5 as stated: the hit returns a result equal to the one the storing call
\* returned.
CacheIdempotence ==
  \A r \in DOMAIN req :
    (req[r].pc = "done" /\ IsRead(req[r]) /\ req[r].hit) =>
      /\ req[r].fetches = 0
      /\ req[r].srcFetches = 1
      /\ req[r].data = req[r].src

\* getProductById was answered from the cache.
CacheIdempotenceWitness ==
  \E r \in DOMAIN req :
    /\ req[r].pc = "done" /\ req[r].op = "get" /\ req[r].hit
    /\ req[r].status = 200

PageKeys == {k \in DOMAIN redis : IsPrefix(<<"products", ":">>, k)}

\* C6 (invalidation correctness): a create, update or delete that committed
\* and ran its invalidations with the cache available and without a cache
\* error has removed every cached product list page when it completes; and
\* while the last completed write was such a write, a list call answered
\* from the cache returns a page read after that write.
InvalidationCorrect ==
  \A r \in DOMAIN req :
    /\ (req[r].pc = "done" /\ IsWrite(req[r]) /\ req[r].committed
          /\ req[r].invOk) => PageKeys = {}
    /\ (req[r].pc = "done" /\ req[r].op = "list" /\ req[r].hit
          /\ lastWriteOk) => req[r].fresh

\* An update completed after deleting the product's entry, the cached
\* pages and the category's entry.
InvalidationCorrectWitness ==
  \E r \in DOMAIN req :
    /\ req[r].pc = "done" /\ req[r].op = "update" /\ req[r].committed
    /\ req[r].invOk /\ req[r].dels = 3

\* C7 (cache outage): a getCached call made while the cache is marked
\* unavailable or has no client sends no command to the cache store, invokes
\* the fetch function once and, when the fetch function returns, returns
\* its result without throwing.
CacheOutageDegrades ==
  \A r \in DOMAIN req :
    req[r].bypass =>
      /\ req[r].gcCalls = 0
      /\ req[r].pc \notin {"gc_get", "gc_setex"}
      /\ ~req[r].hit
      /\ (req[r].pc = "done" /\ IsRead(req[r])) =>
           /\ req[r].fetches = 1
           /\ (~req[r].dbErr /\ ~CategoryIdInvalid(req[r])) =>
                /\ req[r].data = FetchResult(req[r], products)
                /\ req[r].status = IF req[r].data = Null THEN 404 ELSE 200

\* getProductById ran with the cache down although the store holds an entry
\* under its key.
CacheOutageDegradesWitness ==
  \E r \in DOMAIN req :
    /\ req[r].pc = "done" /\ req[r].op = "get" /\ req[r].bypass
    /\ req[r].status = 200
    /\ req[r].key \in DOMAIN redis

\* The effect of a write request's statement is in the table.
WriteVisible(rec) ==
  CASE rec.op = "delete" -> RowsWithId(products, rec.id) = {}
    [] OTHER -> rec.data[2] \in products

\* C9 (invalidation ordering): a write request sends keys/del to the cache
\* only after its INSERT/UPDATE/DELETE is committed on the primary, and a
\* write request that failed or was rolled back has sent no deletion.
InvalidationAfterCommit ==
  \A r \in DOMAIN req :
    /\ (req[r].dels > 0 \/ req[r].pc \in {"inv_keys", "inv_del"}) =>
         /\ IsWrite(req[r])
         /\ req[r].committed
         /\ WriteVisible(req[r])
    /\ (req[r].pc = "done" /\ IsWrite(req[r])
          /\ req[r].status # SuccessStatus(req[r])) =>
         /\ req[r].dels = 0
         /\ ~req[r].committed

\* createProduct is deleting the cached pages after its COMMIT.
InvalidationAfterCommitWitness ==
  \E r \in DOMAIN req :
    /\ req[r].pc = "inv_del" /\ req[r].op = "create"
    /\ req[r].keys # {}
    /\ req[r].data[2] \in products

\* C10 (cache failures absorbed): a request during which a cache command
\* threw while its database calls succeeded completes as it would with the
\* cache disabled: a read returns what its query finds, a write reports its
\* committed row; the cache error never reaches the caller.
CacheFailuresAbsorbed ==
  \A r \in DOMAIN req :
    (req[r].pc = "done" /\ req[r].cacheErr /\ ~req[r].dbErr) =>
      /\ req[r].status \in {200, 201, 400, 404}
      /\ IsRead(req[r]) =>
           /\ req[r].data = FetchResult(req[r], products)
           /\ req[r].status = IF req[r].data = Null THEN 404 ELSE 200
      /\ IsWrite(req[r]) =>
           /\ req[r].status = 404 => RowsWithId(products, req[r].id) = {}
           /\ req[r].status = 400 =>
                RowsWithId(products, req[r].id) # {} /\ req[r].nofields
           /\ req[r].committed =>
                /\ req[r].status = SuccessStatus(req[r])
                /\ WriteVisible(req[r])

\* An update completed with 200 although one of its invalidations threw.
CacheFailuresAbsorbedWitness ==
  \E r \in DOMAIN req :
    /\ req[r].pc = "done" /\ req[r].op = "update" /\ req[r].cacheErr
    /\ ~req[r].dbErr /\ req[r].committed /\ req[r].status = 200


AllDigits(chars) == \A i \in 1..Len(chars) : IsDigit(chars[i])

\* The value is a positive integer or the decimal text of one.
IsPositiveInteger(v) ==
  \/ IsNum(v) /\ v[2] >= 1
  \/ IsStr(v) /\ v[2] # <<>> /\ AllDigits(v[2]) /\ DigitPrefix(v[2], 0) >= 1

Pagers == {"list", "catlist", "catget"}

\* C3 (cursor validation): a pager called with a provided (non-empty)
\* cursor that is not a positive integer fails with 400 INVALID_CURSOR
\* before it makes any cache or database call.
CursorValidation ==
  \A r \in DOMAIN req :
    (req[r].op \in Pagers /\ req[r].pc # "idle"
       /\ CursorGiven(req[r].given) /\ ~IsPositiveInteger(req[r].given)) =>
      /\ req[r].pc = "done"
      /\ req[r].status = 400
      /\ req[r].code = "INVALID_CURSOR"
      /\ req[r].gcCalls = 0
      /\ req[r].dbCalls = 0

Routes ==
  {"GET /api/products", "GET /api/categories", "GET /api/categories/:id"}

\* C4 (limit clamping): whatever the limit query parameter is, the page
\* size a list route hands to its pager is an integer in 1..100, limit=0
\* gives 1 and limit=500 gives 100, and a request without a cursor does not
\* fail unless the database does.
LimitClamping ==
  \A r \in DOMAIN req :
    (req[r].route \in Routes /\ req[r].pc # "idle") =>
      /\ IsNum(req[r].limit)
      /\ req[r].limit[2] \in 1..100
      /\ req[r].qLimit = Str(<<"0">>) => req[r].limit = Num(1)
      /\ req[r].qLimit = Str(<<"5", "0", "0">>) => req[r].limit = Num(100)
      /\ (req[r].pc = "done" /\ ~req[r].dbErr
            /\ ~CursorGiven(req[r].qCursor)) =>
           req[r].status \in {200, 404}

\* C8 (update-read consistency): a getProductById(p) that started after an
\* update of p completed successfully returns the updated values, never
\* older ones, with or without a read replica.
UpdateReadConsistency ==
  \A r \in DOMAIN req :
    (req[r].pc = "done" /\ req[r].op = "get" /\ req[r].status = 200) =>
      req[r].data[2].ver >= req[r].minVer


\* C8 without a read replica: the same, when every query goes to the
\* primary pool.
UpdateReadConsistencyPrimary == ~replicaOn => UpdateReadConsistency

\* C11 (deserialization failure): when the text stored under a key cannot
\* be deserialized, getCached returns the freshly computed value and
\* overwrites the stored entry with it, so that the next getCached call for
\* that key is a hit on the new value.
DeserializationFailureOverwrites ==
  \A r \in DOMAIN req :
    (req[r].pc = "done" /\ IsRead(req[r]) /\ req[r].parseErr
       /\ ~req[r].dbErr) =>
      /\ req[r].data = FetchResult(req[r], products)
      /\ req[r].data # Null =>
           /\ req[r].key \in DOMAIN redis
           /\ redis[req[r].key].val = JsonStringify(req[r].data)

\* C11, the part the code keeps: the freshly computed value is returned.
DeserializationFailureRecomputes ==
  \A r \in DOMAIN req :
    (req[r].pc = "done" /\ IsRead(req[r]) /\ req[r].parseErr
       /\ ~req[r].dbErr) =>
      /\ req[r].data = FetchResult(req[r], products)
      /\ req[r].status = IF req[r].data = Null THEN 404 ELSE 200

\* getProductById found an undeserializable text under product:1 and
\* returned the row.
DeserializationFailureWitness ==
  \E r \in DOMAIN req :
    /\ req[r].pc = "done" /\ req[r].op = "get" /\ req[r].parseErr
    /\ req[r].status = 200

\* C12 (database failures propagate, no retry): when the database query
\* inside a cached read (getAllProductsPaginated, getProductById) fails, the
\* request fails with a server error and the fetch function was invoked
\* exactly once for it; the cache layer never invokes it a second time.
DbFailureNotRetried ==
  \A r \in DOMAIN req :
    (req[r].pc = "done" /\ IsRead(req[r]) /\ req[r].dbErr) =>
      /\ req[r].status = 500
      /\ req[r].fetches = 1

\* A read whose query failed after a cache miss has ended.
DbFailureNotRetriedWitness ==
  \E r \in DOMAIN req :
    /\ req[r].pc = "done" /\ req[r].op = "get" /\ req[r].dbErr
    /\ req[r].gcCalls > 0 /\ ~req[r].cacheErr

\* C13 (pagination stability under insert): when products with larger ids
\* are inserted after page 1 was fetched, a later page fetched with the
\* nextCursor of the page before repeats no product of the earlier pages
\* and skips none with an id below the last item it continues from: it is
\* the limit highest ids below its cursor, whether it comes from the
\* database or from the cache.
PaginationStable ==
  \A r \in DOMAIN req :
    (req[r].paging /\ req[r].pc = "done" /\ req[r].status = 200
       /\ trav.pages >= 1) =>
      LET ids == RowIds(req[r].data[2].products)
          M == BelowCursor(req[r])
          L == req[r].limit[2]
      IN /\ Range(ids) \cap Range(trav.seen) = {}
         /\ StrictlyDescending(ids)
         /\ Range(ids) \subseteq M
         /\ Len(ids) = IF Cardinality(M) > L THEN L ELSE Cardinality(M)
         /\ \A i \in Range(ids), m \in M \ Range(ids) : i > m

\* Page 2 was served from the cache after product 3 was inserted.
PaginationStableWitness ==
  \E r \in DOMAIN req :
    /\ req[r].paging /\ req[r].pc = "done" /\ req[r].status = 200
    /\ trav.pages = 1 /\ req[r].hit
    /\ req[r].cursor = Num(2)
    /\ \E p \in products : p.id = 3

\* C14 (exact-key and cross-entity invalidation): when updateProduct or
\* deleteProduct of a product completes successfully with the cache
\* available, the keys product:{id} and category:{category_id of the row}
\* are absent from the cache; when createProduct completes successfully,
\* category:{categoryId} is absent from the cache.
ExactKeyInvalidation ==
  \A r \in DOMAIN req :
    (req[r].pc = "done" /\ IsWrite(req[r]) /\ req[r].committed
       /\ req[r].invOk) =>
      /\ req[r].op \in {"update", "delete"} =>
           KeyProduct(req[r].id) \notin DOMAIN redis
      /\ KeyCategory(req[r].data[2].category_id) \notin DOMAIN redis

\* deleteProduct completed after its three deletions, the last one of the
\* key category:1.
ExactKeyInvalidationWitness ==
  \E r \in DOMAIN req :
    /\ req[r].pc = "done" /\ req[r].op = "delete" /\ req[r].committed
    /\ req[r].invOk /\ req[r].dels = 3 /\ req[r].status = 200
    /\ req[r].data[2].category_id = 1

\* C15 (create-read consistency): once createProduct has returned a product
\* with id n, every getProductById(n) that starts afterwards returns that
\* product and never null, also when getProductById(n) had been called
\* before the product existed, and with or without a read replica.
CreateReadConsistency ==
  \A r \in DOMAIN req :
    (req[r].pc = "done" /\ req[r].op = "get" /\ req[r].mustExist) =>
      /\ req[r].status = 200
      /\ req[r].data # Null
      /\ req[r].data[2].id = req[r].id

\* C15 without a read replica: the same, when every query goes to the
\* primary pool.
CreateReadConsistencyPrimary == ~replicaOn => CreateReadConsistency

\* getProductById(2) was called after createProduct had returned product 2.
CreateReadConsistencyWitness ==
  \E r \in DOMAIN req :
    /\ req[r].pc = "done" /\ req[r].op = "get" /\ req[r].mustExist
    /\ req[r].id = 2

\* The text begins, after any leading whitespace and in any letter case,
\* with one of the seven write keywords.
BeginsWithWriteKeyword(sql) ==
  \E n \in 0..Len(sql), kw \in WriteKeywords :
    /\ n + Len(kw) <= Len(sql)
    /\ \A i \in 1..n : sql[i] \in {" ", "\t", "\n", "\r", "\f"}
    /\ \A j \in 1..Len(kw) : sql[n + j] \in {kw[j], ToLower(kw[j])}

\* C16 (query routing): query(sql, params, options) runs on the primary
\* pool when sql begins (case-insensitively, after leading whitespace) with
\* INSERT, UPDATE, DELETE, CREATE, DROP, ALTER or TRUNCATE or forcePrimary
\* is set; every other query runs on the replica when one is configured
\* and on the primary when none is.
QueryRouting ==
  routed.pool # "none" =>
    IF BeginsWithWriteKeyword(routed.sql) \/ routed.forcePrimary
    THEN routed.pool = "primary"
    ELSE routed.pool = IF replicaOn THEN "replica" ELSE "primary"

\* With a replica configured, a lower-case insert after a line break went
\* to the primary.
QueryRoutingWitness ==
  /\ replicaOn
  /\ routed.pool = "primary"
  /\ ~routed.forcePrimary
  /\ routed.sql = <<"\n", " ", " ">> \o LowerCase(KwInsert) \o <<" ", "x">>

AuditRows(action, resourceType, id) ==
  {i \in 1..Len(audit) : audit[i] = <<action, resourceType, id>>}

\* C18 (complete audit trail): every successful create, update or delete
\* of a product or of a category is followed by exactly one audit-log
\* insert for that action and resource, issued after the data change was
\* committed; a failing audit insert never fails the request.
AuditTrailComplete ==
  \A r \in DOMAIN req :
    /\ req[r].auditCalls > 0 => req[r].committed
    /\ (req[r].pc = "done" /\ (IsWrite(req[r]) \/ IsCategoryWrite(req[r]))
          /\ req[r].status \in {200, 201}) =>
         req[r].auditCalls = 1
    /\ (req[r].pc = "done" /\ req[r].auditErr) =>
         req[r].status \in {200, 201}

\* C18 for products only: the part the code keeps.
ProductAuditTrail ==
  \A r \in DOMAIN req :
    /\ req[r].auditCalls > 0 => req[r].committed
    /\ (req[r].pc = "done" /\ IsWrite(req[r])
          /\ req[r].status \in {200, 201}) =>
         /\ req[r].auditCalls = 1
         /\ ~req[r].auditErr =>
              audit[Len(audit)] = <<AuditAction(req[r]), "product", req[r].id>>
    /\ (req[r].pc = "done" /\ req[r].auditErr) =>
         req[r].status \in {200, 201}

\* A category was created and the call returned its row.
AuditTrailCompleteWitness ==
  \E r \in DOMAIN req :
    /\ req[r].pc = "done" /\ req[r].op = "catcreate"
    /\ req[r].status = 201
    /\ req[r].id \in categories

\* The window a client key is in after the counted requests of `log`, by
\* the claim's words: n requests counted in the window that closes at reset.
RECURSIVE WindowAfter(_)
WindowAfter(log) ==
  IF log = <<>> THEN [n |-> 0, reset |-> 0]
  ELSE LET before == WindowAfter(SubSeq(log, 1, Len(log) - 1))
           t == log[Len(log)]
       IN IF before.n = 0 \/ t > before.reset
          THEN [n |-> 1, reset |-> t + WindowMs]
          ELSE [n |-> before.n + 1, reset |-> before.reset]

RedisBackedRateLimiting ==
  /\ (listening /\ CacheUp) => rateStore = "redis"
  /\ answer.counted => (answer.redisUp <=> answer.store = "redis")

\* A request was counted in the MemoryStore while Redis was connected.
RedisBackedRateLimitingWitness ==
  /\ answer.counted /\ answer.redisUp
  /\ answer.store = "memory"
  /\ answer.key \in DOMAIN memoryStore.hits
  /\ redisHits[answer.key] = 0

\* Every pool that exists has finished closing.
PoolsClosed ==
  /\ poolState.pool = "ended"
  /\ replicaOn => poolState.readPool = "ended"

\* C21 (graceful shutdown order): on SIGTERM or SIGINT, also when several
\* signals arrive, the cron task is stopped before the HTTP server is
\* closed, the Redis connection and the pools are closed only after the
\* HTTP server has closed, the process exits with code 0 only after the
\* pools have finished closing, and each pool is ended at most once.
ShutdownOrder ==
  /\ httpState \in {"closing", "closed"} => cronStopped
  /\ redisQuits > 0 => httpState = "closed"
  /\ poolState # AllPools("open") =>
       /\ httpState = "closed"
       /\ redisClient = "client" => redisQuits > 0
  /\ (exit.done /\ exit.code = 0) => PoolsClosed
  /\ poolEnds.pool <= 1 /\ poolEnds.readPool <= 1

\* C21 with one signal only: the order the code keeps.
ShutdownOrderOneSignal == signals <= 1 => ShutdownOrder

\* Two signals were handled and the process exited with code 0 while the
\* primary pool was still ending.
ShutdownOrderWitness ==
  /\ signals = 2
  /\ exit.done /\ exit.code = 0
  /\ poolState.pool = "ending"
  /\ poolEnds.pool = 1

\* C22 (shutdown liveness): once a SIGTERM or SIGINT has been handled, at
\* any point after startServer() was called, the process eventually exits.
ShutdownLiveness == (signals > 0) ~> exit.done

\* C22 for signals handled once the server listens.
ShutdownLivenessListening == (forceTimers > 0) ~> exit.done

\* A signal was handled during startup and the server listens since.
ShutdownLivenessWitness ==
  /\ signals > 0
  /\ listening /\ httpState = "open"
  /\ forceTimers = 0
  /\ ~exit.done

\* The page a list call must return from these rows.
ExpectedIds(rec) ==
  RowIds(Limit(OrderByIdDesc({p \in products : p.id \in BelowCursor(rec)}),
               rec.limit[2]))

\* C23 (gap tolerance): when rows are deleted between page fetches, the
\* row of the current cursor included, the next page fetched with that
\* cursor is exactly the surviving rows below the cursor, highest ids
\* first up to the limit, and holds nothing the traversal returned before.
GapTolerance ==
  \A r \in DOMAIN req :
    (req[r].paging /\ req[r].pc = "done" /\ req[r].status = 200
       /\ trav.pages >= 1) =>
      /\ RowIds(req[r].data[2].products) = ExpectedIds(req[r])
      /\ Range(RowIds(req[r].data[2].products)) \cap Range(trav.seen) = {}

\* C23 for the pages the database answers: the part the code keeps.
GapToleranceDb ==
  \A r \in DOMAIN req :
    (req[r].paging /\ req[r].pc = "done" /\ req[r].status = 200
       /\ trav.pages >= 1 /\ ~req[r].hit) =>
      /\ RowIds(req[r].data[2].products) = ExpectedIds(req[r])
      /\ Range(RowIds(req[r].data[2].products)) \cap Range(trav.seen) = {}

\* The row of the cursor was deleted after page 1, and page 2 was fetched
\* with that cursor.
GapToleranceWitness ==
  \E r \in DOMAIN req :
    /\ req[r].paging /\ req[r].pc = "done" /\ req[r].status = 200
    /\ trav.pages = 1 /\ req[r].cursor = Num(2)
    /\ {p.id : p \in products} = {1}
    /\ RowIds(req[r].data[2].products) = <<1>>

\* The pcs at which a request awaits a command it sent to the cache store.
CachePcs == {"gc_get", "gc_setex", "inv_keys", "inv_del"}

\* In this step request r sends a command to the cache store.
IssuesCommand(r) ==
  /\ req'[r].pc \in CachePcs
  /\ <<req'[r].pc, req'[r].stage>> # <<req[r].pc, req[r].stage>>

\* The flag is true exactly when the last connect / error / close event
\* was connect.
FlagTracksEvents == isRedisEnabled <=> (redisEvent = "connect")

\* C24 (availability tracking): the availability flag is true exactly when
\* the most recent of the client's connect, error and close events was
\* connect, and while the flag is false getCached, invalidateCache and
\* invalidateCachePattern send no command to the cache store.
AvailabilityTracking ==
  [][/\ FlagTracksEvents'
     /\ \A r \in DOMAIN req : IssuesCommand(r) => isRedisEnabled]_vars

\* C24 for calls that begin with the flag down: they send no command.
NoCommandWhenDownAtEntry ==
  \A r \in DOMAIN req :
    (req[r].bypass /\ IsRead(req[r])) =>
      /\ req[r].gcCalls = 0
      /\ req[r].pc \notin CachePcs

\* A request is awaiting its setex while the flag is down.
AvailabilityTrackingWitness ==
  \E r \in DOMAIN req :
    /\ req[r].pc = "gc_setex"
    /\ ~isRedisEnabled /\ redisEvent \in {"error", "close"}

\* The category filter a list call denotes: none, or the id its fetch
\* function parses out of categoryId (NaN for an invalid one).
CategoryOf(rec) ==
  IF Truthy(rec.categoryId) THEN ParseInt(rec.categoryId) ELSE Undef

\* Two list calls denote the same logical query.
SameQuery(a, b) ==
  /\ CategoryOf(a) = CategoryOf(b)
  /\ CurInt(a) = CurInt(b)
  /\ a.limit = b.limit

KeyBuilt(rec) == rec.op = "list" /\ rec.pc = "gc_get"

\* C25 (key fingerprint): the cache key getAllProductsPaginated builds is a
\* function of the logical query only: two calls with the same category
\* id, cursor and limit get the same key, and two calls that differ in one
\* of them get different keys.
KeyFingerprint ==
  \A a, b \in DOMAIN req :
    (KeyBuilt(req[a]) /\ KeyBuilt(req[b])) =>
      (SameQuery(req[a], req[b]) <=> req[a].key = req[b].key)

\* C25 for category ids given in plain decimal, or not given.
KeyFingerprintPlain ==
  \A a, b \in DOMAIN req :
    (KeyBuilt(req[a]) /\ KeyBuilt(req[b])
       /\ {req[a].categoryId, req[b].categoryId}
            \subseteq {Undef, Str(<<"1">>), Str(<<"2">>)}) =>
      (SameQuery(req[a], req[b]) <=> req[a].key = req[b].key)

\* Two calls for category 1, cursor 2 and limit 1, one of them with a
\* blank before the id, have built their keys.
KeyFingerprintWitness ==
  \E a, b \in DOMAIN req :
    /\ KeyBuilt(req[a]) /\ KeyBuilt(req[b])
    /\ req[a].categoryId = Str(<<"1">>)
    /\ req[b].categoryId = Str(<<" ", "1">>)
    /\ req[a].given = Str(<<"2">>) /\ req[b].given = Num(2)
    /\ SameQuery(req[a], req[b])

\* C26 (route-to-pager hand-off): for GET /api/products the cursor the
\* pager is given is the client's cursor query parameter and its page size
\* is the clamped limit; a successful response holds at most that many
\* items.
RouteHandOff ==
  \A r \in DOMAIN req :
    (req[r].route = "GET /api/products" /\ req[r].pc # "idle") =>
      /\ req[r].given = req[r].qCursor
      /\ req[r].limit = ClampLimit(req[r].qLimit)
      /\ (req[r].pc = "done" /\ req[r].status = 200) =>
           Len(req[r].data[2].products) <= ClampLimit(req[r].qLimit)[2]

\* GET /api/products?limit=2 has been answered.
RouteHandOffWitness ==
  \E r \in DOMAIN req :
    /\ req[r].route = "GET /api/products" /\ req[r].pc = "done"
    /\ req[r].qCursor = Undef /\ req[r].qLimit = Str(<<"2">>)
    /\ req[r].given = Num(2) /\ req[r].limit = ReqObj
    /\ req[r].status = 500

\* The products a read call returned.
ReturnedProducts(rec) ==
  IF rec.op = "list" THEN Range(rec.data[2].products)
  ELSE IF rec.data = Null THEN {} ELSE {rec.data[2]}

\* C27 (category deletion and product caches): once deleteCategory(c) has
\* completed, no getProductById or getAllProductsPaginated call that
\* follows returns a product that belonged to c, with the cache enabled or
\* not.
CascadeReadConsistency ==
  \A r \in DOMAIN req :
    (req[r].pc = "done" /\ IsRead(req[r]) /\ req[r].status = 200) =>
      \A p \in ReturnedProducts(req[r]) : p.category_id \in categories

\* C27 with the cache not enabled.
CascadeReadConsistencyNoCache ==
  \A r \in DOMAIN req :
    (req[r].pc = "done" /\ IsRead(req[r]) /\ req[r].status = 200
       /\ req[r].bypass) =>
      \A p \in ReturnedProducts(req[r]) : p.category_id \in categories

\* Category 1 was deleted and getProductById(1) is answered from the cache
\* afterwards.
CascadeReadConsistencyWitness ==
  \E r \in DOMAIN req :
    /\ req[r].pc = "done" /\ req[r].op = "get" /\ req[r].id = 1
    /\ req[r].hit /\ req[r].status = 200
    /\ 1 \notin categories
    /\ \A p \in products : p.category_id # 1

\* ------------------------------------------------------------- token gate

MaxTokens == 3

\* Token values: crypto.randomBytes(32).toString('hex'), here one character.
TokenValues == {<<"t">>, <<"x">>, <<"u">>}

BearerPrefix == <<"B", "e", "a", "r", "e", "r", " ">>

\* String.prototype.trim
RECURSIVE TrimEnd(_)
TrimEnd(s) ==
  IF s # <<>> /\ s[Len(s)] \in WhitespaceChars
  THEN TrimEnd(SubSeq(s, 1, Len(s) - 1)) ELSE s
Trim(s) == TrimEnd(SkipWhitespace(s))

\* req.headers.authorization: absent, empty, other schemes, the scheme in
\* lower case, the scheme without a token, and tokens with blanks around.
AuthHeaders ==
  {Undef, Str(<<>>), Str(<<"t">>),
   Str(<<"B", "e", "a", "r", "e", "r">>),
   Str(<<"B", "e", "a", "r", "e", "r", "t">>),
   Str(BearerPrefix), Str(BearerPrefix \o <<" ">>),
   Str(<<"b", "e", "a", "r", "e", "r", " ", "t">>),
   Str(BearerPrefix \o <<"t">>), Str(BearerPrefix \o <<" ", "t", " ">>),
   Str(BearerPrefix \o <<"x">>), Str(BearerPrefix \o <<"u">>)}

\* requireAuth up to its await: a missing header, a header that does not
\* start with 'Bearer ' and an empty token are answered with 401.
RequireAuth(r, header) ==
  /\ req[r].pc = "idle"
  /\ \A q \in DOMAIN req : req[q].pc = "idle"
  /\ LET rec == [Idle EXCEPT !.op = "auth", !.authHeader = header]
     IN IF ~Truthy(header) \/ ~IsPrefix(BearerPrefix, header[2])
        THEN Set(r, Finished(rec, 401, "AUTH_REQUIRED"))
        ELSE LET token == Trim(SubSeq(header[2], 8, Len(header[2])))
             IN IF token = <<>>
                THEN Set(r, Finished(rec, 401, "AUTH_REQUIRED"))
                ELSE Set(r, [rec EXCEPT !.pc = "auth_select",
                                        !.token = token])
  /\ UNCHANGED <<dbVars, redisVars, ghostVars>>

\* validateToken's SELECT that matches any row with the token.
ValidateTokenSelectAnyRow(r) ==
  /\ req[r].pc = "auth_select"
  /\ LET rows == {t \in apiTokens : t.token = req[r].token}
         rec == [req[r] EXCEPT !.dbCalls = @ + 1, !.tokenRows = apiTokens]
     IN IF rows # {}
        THEN Set(r, [rec EXCEPT !.pc = "auth_update",
                                !.tokenId = (CHOOSE t \in rows : TRUE).id])
        ELSE Set(r, Finished(rec, 401, "INVALID_TOKEN"))
  /\ UNCHANGED <<dbVars, redisVars, ghostVars>>

\* validateToken's SELECT ... WHERE token = $1 AND is_active = true: no row
\* makes it return null, and requireAuth answers 401.
ValidateTokenSelect(r) ==
  /\ req[r].pc = "auth_select"
  /\ LET rows == {t \in apiTokens : t.token = req[r].token /\ t.is_active}
         rec == [req[r] EXCEPT !.dbCalls = @ + 1, !.tokenRows = apiTokens]
     IN IF rows # {}
        THEN Set(r, [rec EXCEPT !.pc = "auth_update",
                                !.tokenId = (CHOOSE t \in rows : TRUE).id])
        ELSE Set(r, Finished(rec, 401, "INVALID_TOKEN"))
  /\ UNCHANGED <<dbVars, redisVars, ghostVars>>

\* UPDATE api_tokens SET last_used_at = NOW() WHERE id = $1, then the row
\* is returned and requireAuth calls next().
ValidateTokenUpdate(r) ==
  /\ req[r].pc = "auth_update"
  /\ apiTokens' = {IF t.id = req[r].tokenId THEN [t EXCEPT !.used = TRUE]
                   ELSE t : t \in apiTokens}
  /\ Set(r, [req[r] EXCEPT !.pc = "done", !.dbCalls = @ + 1,
                           !.nextCalled = TRUE])
  /\ UNCHANGED <<products, categories, nextId, audit, replicaOn,
                 nextCategoryId, routed, limiterVars, procVars, replica,
                 writes, redisVars, ghostVars>>

\* Either statement rejects: validateToken's catch returns null.
ValidateTokenThrow(r) ==
  /\ req[r].pc \in {"auth_select", "auth_update"}
  /\ Set(r, Finished([req[r] EXCEPT !.dbCalls = @ + 1, !.dbErr = TRUE],
                     401, "INVALID_TOKEN"))
  /\ UNCHANGED <<dbVars, redisVars, ghostVars>>

\* generateToken: INSERT INTO api_tokens (token, name); id is the SERIAL,
\* is_active its default, token is UNIQUE.
GenerateToken(tok) ==
  /\ Cardinality(apiTokens) < MaxTokens
  /\ \A t \in apiTokens : t.token # tok
  /\ LET ids == {t.id : t \in apiTokens}
         id == CHOOSE i \in 1..(MaxTokens + 1) :
                 i \notin ids /\ \A j \in ids : j < i
     IN apiTokens' = apiTokens \cup
          {[id |-> id, token |-> tok, is_active |-> TRUE, used |-> FALSE]}
  /\ UNCHANGED <<products, categories, nextId, audit, replicaOn,
                 nextCategoryId, routed, limiterVars, procVars, replica,
                 writes, redisVars, req, ghostVars>>

\* resetDatabase: TRUNCATE TABLE api_tokens RESTART IDENTITY.
TruncateTokens ==
  /\ apiTokens # {}
  /\ apiTokens' = {}
  /\ UNCHANGED <<products, categories, nextId, audit, replicaOn,
                 nextCategoryId, routed, limiterVars, procVars, replica,
                 writes, redisVars, req, ghostVars>>

\* The table holds an active token and one whose is_active is false.
AuthInit ==
  /\ products = SeedProducts
  /\ categories = SeedCategories
  /\ nextId = 2
  /\ audit = <<>>
  /\ replicaOn = FALSE
  /\ replica = SeedProducts
  /\ writes = 0
  /\ redisClient = "null"
  /\ isRedisEnabled = FALSE
  /\ redis = <<>>
  /\ req = [s \in {1} |-> Idle]
  /\ client = [limit |-> Num(1), categoryId |-> Undef]
  /\ trav = NoTrav
  /\ lastWriteOk = TRUE
  /\ completed = [i \in 1..MaxId |-> 0]
  /\ created = {}
  /\ nextCategoryId = 3
  /\ routed = NoQuery
  /\ rateStore = "memory"
  /\ memoryStore = EmptyMemoryStore
  /\ redisHits = [k \in ClientKeys |-> 0]
  /\ now = 0
  /\ answer = NoAnswer
  /\ rlLog = [k \in ClientKeys |-> <<>>]
  /\ listening = TRUE
  /\ started = TRUE
  /\ httpState = "open"
  /\ ProcInit
  /\ apiTokens =
       {[id |-> 1, token |-> <<"t">>, is_active |-> TRUE, used |-> FALSE],
        [id |-> 2, token |-> <<"x">>, is_active |-> FALSE, used |-> FALSE]}

AuthNext ==
  \/ \E r \in DOMAIN req, header \in AuthHeaders : RequireAuth(r, header)
  \/ \E r \in DOMAIN req : ValidateTokenSelect(r)
  \/ \E r \in DOMAIN req : ValidateTokenUpdate(r)
  \/ \E r \in DOMAIN req : ValidateTokenThrow(r)
  \/ \E tok \in TokenValues : GenerateToken(tok)
  \/ TruncateTokens
  \/ \E r \in DOMAIN req : Finish(r)

AuthSpec == AuthInit /\ [][AuthNext]_vars

\* The headers of the form 'Bearer <token>': the scheme, blanks, a token.
Blanks == {<<>>, <<" ">>}
BearerTokens(header) ==
  {tok \in TokenValues :
     \E a \in Blanks, b \in Blanks :
       header = Str(<<"B", "e", "a", "r", "e", "r", " ">> \o a \o tok \o b)}

\* C28: requireAuth calls next() only for a header 'Bearer <token>' whose
\* token matched a row of api_tokens that was active when validateToken
\* looked it up, and with no database error; every other request, a failed
\* lookup or last-used update included, ends with 401 and without next().
TokenGate ==
  \A r \in DOMAIN req :
    req[r].op = "auth" =>
      /\ req[r].nextCalled =>
            /\ req[r].pc = "done" /\ req[r].status # 401 /\ ~req[r].dbErr
            /\ \E tok \in BearerTokens(req[r].authHeader) :
                 \E t \in req[r].tokenRows :
                   t.token = tok /\ t.is_active /\ t.id = req[r].tokenId
      /\ (req[r].pc = "done" /\ ~req[r].nextCalled) => req[r].status = 401
      /\ (req[r].pc = "done" /\ req[r].dbErr) =>
            req[r].status = 401 /\ ~req[r].nextCalled

\* A token with blanks around it passed the gate after its row was found
\* active, and the row has since been truncated away.
TokenGateWitness ==
  \E r \in DOMAIN req :
    /\ req[r].nextCalled
    /\ req[r].authHeader = Str(BearerPrefix \o <<" ", "t", " ">>)
    /\ apiTokens = {}

\* ------------------------------------------- the pooled client of a create

\* C29: on every path through createProduct the client acquired at entry
\* is released exactly once, when the call ends, and never while the
\* transaction opened by BEGIN is neither committed nor rolled back.
ConnectionRelease ==
  \A r \in DOMAIN req :
    req[r].op = "create" =>
      /\ req[r].released =
           (IF req[r].pc = "done" /\ req[r].acquired THEN 1 ELSE 0)
      /\ req[r].released > 0 => req[r].txn # "open"

\* C29, the count alone: one release for each client acquired.
ConnectionReleasedOnce ==
  \A r \in DOMAIN req :
    req[r].op = "create" =>
      req[r].released =
        (IF req[r].pc = "done" /\ req[r].acquired THEN 1 ELSE 0)

\* C29 on the paths whose ROLLBACK in the catch block resolves.
ConnectionReleaseRollbackOk ==
  \A r \in DOMAIN req :
    (req[r].op = "create" /\ req[r].released > 0 /\ req[r].txn = "open") =>
      req[r].dbErr /\ req[r].code = "INTERNAL_ERROR"

\* A createProduct whose statement failed after BEGIN has released its
\* client with the transaction still open.
ConnectionReleaseWitness ==
  \E r \in DOMAIN req :
    /\ req[r].op = "create" /\ req[r].pc = "done"
    /\ req[r].released = 1 /\ req[r].txn = "open" /\ req[r].dbErr

\* ------------------------------------------------ writes that change nothing

====
